---- MODULE Spec2Model ----
(***************************************************************************)
(* Model of the vendored toolbox_core client of ypenn21/mlb-agent:         *)
(* ToolboxClient (client.py), ToolboxTool (tool.py), the schema types      *)
(* (protocol.py) and identify_auth_requirements (utils.py).                *)
(*                                                                         *)
(* Python objects that can be shared between a tool, the tools derived     *)
(* from it, the client and the caller (dicts and lists) live in `heap`, a  *)
(* sequence of cells; a tool holds references (indices) to them, exactly   *)
(* where the code passes the object itself and not a copy.                 *)
(***************************************************************************)
EXTENDS Integers, Sequences, FiniteSets, TLC

\* ------------------------------------------------------------------ bounds

\* tool objects that may exist at once (a load or a derivation beyond it is not taken)
MaxTools == 3
\* names in one caller-supplied bound-parameter mapping
MaxBind == 2
\* services in one list of alternatives given to identify_auth_requirements
MaxAlternatives == 2
\* instants of the environment (the values a provider returns over time)
MaxInstant == 2
\* calls of ToolboxClient.close (and exits of its context manager)
MaxCloses == 2
\* threads running a Google ID token getter, calls each of them makes, and
\* instants of the wall clock
MaxThreads == 2
MaxRuns == 2
MaxClock == 3
\* invocations of one tool in flight at the same time
MaxTasks == 2
\* threads that use the synchronous client, and invocations each makes
MaxCallers == 2
MaxSyncCalls == 1
\* seconds of the wall clock during one run of load_task
MaxSecond == 2

\* ---------------------------------------------------------------- universe

\* authentication / authorization service names
Services == {"a", "b"}

\* names a caller may try to bind: the declared parameters and an undeclared one
BindNames == {"city", "limit", "uid", "zip"}

\* the value (or provider) a caller binds a parameter to / registers as getter
BoundValue == "v"
Getter(s) == "get_" \o s

\* ------------------------------------------------------- protocol.py types

Param(n, t, r, a) == [name |-> n, type |-> t, required |-> r, authSources |-> a]

ToolSchema(ps, az) == [parameters |-> ps, authRequired |-> az]

SupportedTypes == {"string", "integer", "float", "boolean"}

\* ParameterSchema.__get_type: TRUE when it returns, FALSE when it raises
\* ValueError("Unsupported schema type") (array items are not modelled)
get_type_ok(p) == p.type \in SupportedTypes

\* ------------------------------------------------------- the remote server

\* the tools the server declares
SchemaOf(n) ==
  CASE n = "search" -> ToolSchema(<<Param("city", "string", TRUE, <<>>),
                                    Param("limit", "integer", FALSE, <<>>)>>,
                                  <<"a">>)
    [] n = "user"   -> ToolSchema(<<Param("uid", "string", TRUE, <<"a", "b">>),
                                    Param("city", "string", TRUE, <<>>),
                                    Param("limit", "integer", FALSE, <<>>)>>,
                                  <<>>)
    [] n = "plain"  -> ToolSchema(<<Param("city", "string", TRUE, <<>>)>>, <<>>)
    [] n = "bad"    -> ToolSchema(<<Param("city", "string", TRUE, <<>>),
                                    Param("limit", "decimal", FALSE, <<>>)>>,
                                  <<>>)
    [] n = "both"   -> ToolSchema(<<Param("uid", "string", TRUE, <<"b">>),
                                    Param("city", "string", TRUE, <<>>)>>,
                                  <<"a">>)

ToolNames == {"search", "user", "plain", "bad", "both"}

Entry(n) == [name |-> n, schema |-> SchemaOf(n)]

\* the manifests the server answers GET /api/toolset/{name} with, in the
\* order of the JSON object (dict order is the iteration order of the load)
ToolsetOf(n) ==
  CASE n = ""      -> <<Entry("plain"), Entry("search")>>
    [] n = "auth"  -> <<Entry("search"), Entry("user")>>
    [] n = "empty" -> <<>>
    [] n = "mixed" -> <<Entry("plain"), Entry("bad")>>
    [] n = "tail"  -> <<Entry("search"), Entry("plain")>>

ToolsetNames == {"", "auth", "empty", "mixed", "tail"}

\* ------------------------------------------------------------- small helpers

Range(s) == {s[i] : i \in DOMAIN s}

Restrict(f, S) == [x \in S |-> f[x]]

\* dict(d, **e) / {**d, **e}: e wins
Merge(d, e) == [x \in DOMAIN d \cup DOMAIN e |-> IF x \in DOMAIN e THEN e[x] ELSE d[x]]

EmptyDict == <<>>

\* the auth_token_getters dict a caller builds for the sources S
GetterDict(S) == [x \in S |-> Getter(x)]

\* the bound_params dict a caller builds for the names S
BoundDict(S) == [x \in S |-> BoundValue]

\* sequences of distinct names of BindNames, at most n long (the keys of a
\* caller's bound_params mapping, in insertion order)
RECURSIVE DistinctSeqs(_)
DistinctSeqs(n) ==
  IF n = 0 THEN {<<>>}
  ELSE LET shorter == DistinctSeqs(n - 1)
       IN shorter \cup
          {Append(sx[1], sx[2]) :
             sx \in {tx \in shorter \X BindNames :
                       Len(tx[1]) = n - 1 /\ tx[2] \notin Range(tx[1])}}

\* the keys of a dict
Keys(d) == DOMAIN d

\* ------------------------------------------------------------------ utils.py

\* faulty variant: a parameter one of whose services is available stays required
identify_keeps_matched(req_authn_params, req_authz_tokens, auth_service_names) ==
  LET matched_authn(p) ==
        SelectSeq(req_authn_params[p], LAMBDA s : s \in auth_service_names)
      matched_authz == {s \in auth_service_names : s \in Range(req_authz_tokens)}
  IN [authn |-> req_authn_params,
      authz |-> IF matched_authz # {} THEN <<>> ELSE req_authz_tokens,
      used  |-> UNION {Range(matched_authn(p)) : p \in Keys(req_authn_params)}
                  \cup matched_authz]

\* faulty variant: only the authz services that are available are removed
identify_all_of_authz(req_authn_params, req_authz_tokens, auth_service_names) ==
  LET matched_authn(p) ==
        SelectSeq(req_authn_params[p], LAMBDA s : s \in auth_service_names)
      still == {p \in Keys(req_authn_params) : matched_authn(p) = <<>>}
      matched_authz == {s \in auth_service_names : s \in Range(req_authz_tokens)}
  IN [authn |-> Restrict(req_authn_params, still),
      authz |-> SelectSeq(req_authz_tokens, LAMBDA s : s \notin auth_service_names),
      used  |-> UNION {Range(matched_authn(p)) : p \in Keys(req_authn_params)}
                  \cup matched_authz]

\* identify_auth_requirements: req_authn_params maps a parameter name to its
\* list of alternative services, req_authz_tokens is a list, and
\* auth_service_names the names a getter is available for.
identify_auth_requirements(req_authn_params, req_authz_tokens, auth_service_names) ==
  LET matched_authn(p) ==
        SelectSeq(req_authn_params[p], LAMBDA s : s \in auth_service_names)
      still == {p \in Keys(req_authn_params) : matched_authn(p) = <<>>}
      matched_authz == {s \in auth_service_names : s \in Range(req_authz_tokens)}
  IN [authn |-> Restrict(req_authn_params, still),
      authz |-> IF matched_authz # {} THEN <<>> ELSE req_authz_tokens,
      used  |-> UNION {Range(matched_authn(p)) : p \in Keys(req_authn_params)}
                  \cup matched_authz]

\* ------------------------------------------------------------------- tool.py

\* ToolboxTool.__get_auth_header
get_auth_header(auth_token_name) == auth_token_name \o "_token"

\* The outcome of an operation that did not complete.
Failure(err, reason, culprit, names_auth, names_bound) ==
  [ok |-> FALSE, err |-> err, reason |-> reason, culprit |-> culprit,
   names_auth |-> names_auth, names_bound |-> names_bound]

NoFailure ==
  [ok |-> TRUE, err |-> "", reason |-> "", culprit |-> "",
   names_auth |-> {}, names_bound |-> {}]

\* faulty variant: the constructor does not compare header names
ToolboxTool_unchecked(h, name, params, authn, authz, getters, bound, headers) ==
  LET bad_types == {i \in DOMAIN params : ~get_type_ok(params[i])}
  IN IF bad_types # {}
       THEN [fail |-> Failure("ValueError", "unsupported_type", name, {}, {}),
             tool |-> <<>>]
     ELSE [fail |-> NoFailure,
           tool |-> [name |-> name, params |-> params, authn |-> authn, authz |-> authz,
                     getters |-> getters, bound |-> bound, headers |-> headers]]

\* ToolboxTool.__init__ over heap h: the new tool, or the ValueError it
\* raises.  params and authz (required_authz_tokens) are held by value (no
\* accessor hands out the object itself); authn (required_authn_params),
\* getters (auth_service_token_getters), bound (bound_params) and headers
\* (client_headers) are references to heap cells.
ToolboxTool(h, name, params, authn, authz, getters, bound, headers) ==
  LET request_header_names == Keys(h[headers])
      auth_token_names == {get_auth_header(s) : s \in Keys(h[getters])}
      duplicates == request_header_names \cap auth_token_names
      bad_types == {i \in DOMAIN params : ~get_type_ok(params[i])}
  IN IF bad_types # {}
       THEN [fail |-> Failure("ValueError", "unsupported_type", name, {}, {}),
             tool |-> <<>>]
     ELSE IF duplicates # {}
       THEN [fail |-> Failure("ValueError", "header_conflict", name, duplicates, {}),
             tool |-> <<>>]
     ELSE [fail |-> NoFailure,
           tool |-> [name    |-> name,
                     params  |-> params,
                     authn   |-> authn,
                     authz   |-> authz,
                     getters |-> getters,
                     bound   |-> bound,
                     headers |-> headers]]

\* the names of a parameter list
ParamNames(params) == {params[i].name : i \in DOMAIN params}

\* what a tool's fields hold, read through the heap: the value a caller sees
\* through the accessors (_params, _bound_params, _required_authn_params,
\* _required_authz_tokens, _auth_service_token_getters, _client_headers)
View(h, t) ==
  [name    |-> t.name,
   params  |-> t.params,
   bound   |-> h[t.bound],
   authn   |-> [p \in Keys(h[t.authn]) |-> h[h[t.authn][p]]],
   authz   |-> t.authz,
   getters |-> h[t.getters],
   headers |-> h[t.headers]]

\* ----------------------------------------------------------------- client.py

\* faulty variant: a supplied binding wins over the parameter's authSources
parse_tool_bound_first(h, name, schema, getters, all_bound, headers) ==
  LET ps == schema.parameters
      authn_idx == SelectSeq([i \in DOMAIN ps |-> i],
                             LAMBDA i : ps[i].authSources # <<>> /\ ps[i].name \notin Keys(all_bound))
      h1 == h \o [k \in DOMAIN authn_idx |-> ps[authn_idx[k]].authSources]
      list_ref == [n \in {ps[authn_idx[k]].name : k \in DOMAIN authn_idx} |->
                     Len(h) + (CHOOSE k \in DOMAIN authn_idx : ps[authn_idx[k]].name = n)]
      authn_params == [n \in DOMAIN list_ref |-> h1[list_ref[n]]]
      bound_names == {ps[i].name : i \in {j \in DOMAIN ps : ps[j].name \in Keys(all_bound)}}
      bound_params == Restrict(all_bound, bound_names)
      params == SelectSeq(ps, LAMBDA p : p.authSources = <<>> /\ p.name \notin Keys(all_bound))
      ident == identify_auth_requirements(authn_params, schema.authRequired, Keys(h[getters]))
      h2 == h1 \o <<Restrict(list_ref, Keys(ident.authn)), bound_params>>
      made == ToolboxTool(h2, name, params, Len(h1) + 1, ident.authz, getters, Len(h1) + 2, headers)
  IN [fail |-> made.fail, tool |-> made.tool, heap |-> h2,
      used_auth_keys |-> ident.used, used_bound_keys |-> Keys(bound_params)]

\* ToolboxClient.__parse_tool over heap h.  getters and headers are the
\* references the caller / the client hold; all_bound is the caller's mapping.
\* The schema's authSources lists are objects of the freshly parsed manifest:
\* they are allocated here, one cell per authn parameter, in schema order.
parse_tool(h, name, schema, getters, all_bound, headers) ==
  LET ps == schema.parameters
      authn_idx == SelectSeq([i \in DOMAIN ps |-> i], LAMBDA i : ps[i].authSources # <<>>)
      h1 == h \o [k \in DOMAIN authn_idx |-> ps[authn_idx[k]].authSources]
      list_ref == [n \in {ps[authn_idx[k]].name : k \in DOMAIN authn_idx} |->
                     Len(h) + (CHOOSE k \in DOMAIN authn_idx : ps[authn_idx[k]].name = n)]
      authn_params == [n \in DOMAIN list_ref |-> h1[list_ref[n]]]
      bound_names == {ps[i].name : i \in {j \in DOMAIN ps :
                        ps[j].authSources = <<>> /\ ps[j].name \in Keys(all_bound)}}
      bound_params == Restrict(all_bound, bound_names)
      params == SelectSeq(ps, LAMBDA p : p.authSources = <<>> /\ p.name \notin Keys(all_bound))
      ident == identify_auth_requirements(authn_params, schema.authRequired, Keys(h[getters]))
      h2 == h1 \o <<Restrict(list_ref, Keys(ident.authn)), bound_params>>
      made == ToolboxTool(h2, name, params, Len(h1) + 1, ident.authz, getters, Len(h1) + 2, headers)
  IN [fail |-> made.fail, tool |-> made.tool, heap |-> h2,
      used_auth_keys |-> ident.used, used_bound_keys |-> Keys(bound_params)]

\* faulty variant: the error names one unused name of each kind, not all of them
Unused_first_only(culprit, provided_auth, used_auth, provided_bound, used_bound) ==
  LET unused_auth == provided_auth \ used_auth
      unused_bound == provided_bound \ used_bound
      one(S) == IF S = {} THEN {} ELSE {CHOOSE x \in S : TRUE}
  IN IF unused_auth # {} \/ unused_bound # {}
       THEN Failure("ValueError", "unused", culprit, one(unused_auth), one(unused_bound))
       ELSE NoFailure

\* the "unused ..." ValueError of load_tool / load_toolset, or no failure
Unused(culprit, provided_auth, used_auth, provided_bound, used_bound) ==
  LET unused_auth == provided_auth \ used_auth
      unused_bound == provided_bound \ used_bound
  IN IF unused_auth # {} \/ unused_bound # {}
       THEN Failure("ValueError", "unused", culprit, unused_auth, unused_bound)
       ELSE NoFailure

\* ToolboxClient.load_tool after the manifest was fetched (client.py 205-235):
\* getters is the reference to the caller's auth_token_getters mapping,
\* bound_params the caller's mapping, headers the client's header mapping.
load_tool(h, name, manifest, getters, bound_params, headers) ==
  LET found == {i \in DOMAIN manifest : manifest[i].name = name}
  IN IF found = {}
       THEN [fail |-> Failure("ValueError", "not_found", name, {}, {}),
             tools |-> <<>>, heap |-> h]
     ELSE
       LET i == CHOOSE j \in found : TRUE
           r == parse_tool(h, name, manifest[i].schema, getters, bound_params, headers)
           u == Unused(name, Keys(h[getters]), r.used_auth_keys,
                       Keys(bound_params), r.used_bound_keys)
       IN IF ~r.fail.ok THEN [fail |-> r.fail, tools |-> <<>>, heap |-> h]
          ELSE IF ~u.ok THEN [fail |-> u, tools |-> <<>>, heap |-> h]
          ELSE [fail |-> NoFailure, tools |-> <<r.tool>>, heap |-> r.heap]

\* faulty variant: the first tool of the manifest is not held to the strict rule
RECURSIVE load_toolset_loop_spares_first(_, _, _, _, _, _, _)
load_toolset_loop_spares_first(manifest, i, acc, getters, bound_params, headers, strict) ==
  IF i > Len(manifest) THEN acc
  ELSE
    LET r == parse_tool(acc.heap, manifest[i].name, manifest[i].schema,
                        getters, bound_params, headers)
        u == Unused(manifest[i].name, Keys(acc.heap[getters]), r.used_auth_keys,
                    Keys(bound_params), r.used_bound_keys)
    IN IF ~r.fail.ok THEN [acc EXCEPT !.fail = r.fail]
       ELSE IF strict /\ i > 1 /\ ~u.ok THEN [acc EXCEPT !.fail = u]
       ELSE load_toolset_loop_spares_first(manifest, i + 1,
              [fail  |-> NoFailure,
               tools |-> Append(acc.tools, r.tool),
               heap  |-> r.heap,
               overall_used_auth_keys |->
                 IF strict THEN acc.overall_used_auth_keys
                 ELSE acc.overall_used_auth_keys \cup r.used_auth_keys,
               overall_used_bound_params |->
                 IF strict THEN acc.overall_used_bound_params
                 ELSE acc.overall_used_bound_params \cup r.used_bound_keys],
              getters, bound_params, headers, strict)

\* the loop of load_toolset (client.py 294-323) from manifest entry i on;
\* acc carries tools, the heap and the overall_used_* sets, and the failure
\* that ended the loop
RECURSIVE load_toolset_loop(_, _, _, _, _, _, _)
load_toolset_loop(manifest, i, acc, getters, bound_params, headers, strict) ==
  IF i > Len(manifest) THEN acc
  ELSE
    LET r == parse_tool(acc.heap, manifest[i].name, manifest[i].schema,
                        getters, bound_params, headers)
        u == Unused(manifest[i].name, Keys(acc.heap[getters]), r.used_auth_keys,
                    Keys(bound_params), r.used_bound_keys)
    IN IF ~r.fail.ok THEN [acc EXCEPT !.fail = r.fail]
       ELSE IF strict /\ ~u.ok THEN [acc EXCEPT !.fail = u]
       ELSE load_toolset_loop(manifest, i + 1,
              [fail  |-> NoFailure,
               tools |-> Append(acc.tools, r.tool),
               heap  |-> r.heap,
               overall_used_auth_keys |->
                 IF strict THEN acc.overall_used_auth_keys
                 ELSE acc.overall_used_auth_keys \cup r.used_auth_keys,
               overall_used_bound_params |->
                 IF strict THEN acc.overall_used_bound_params
                 ELSE acc.overall_used_bound_params \cup r.used_bound_keys],
              getters, bound_params, headers, strict)

\* faulty variant: every tool is held to the strict rule, whatever the flag says
load_toolset_always_strict(h, name, manifest, getters, bound_params, headers, strict) ==
  LET acc == load_toolset_loop(manifest, 1,
               [fail |-> NoFailure, tools |-> <<>>, heap |-> h,
                overall_used_auth_keys |-> {}, overall_used_bound_params |-> {}],
               getters, bound_params, headers, TRUE)
  IN IF ~acc.fail.ok THEN [fail |-> acc.fail, tools |-> <<>>, heap |-> h]
     ELSE [fail |-> NoFailure, tools |-> acc.tools, heap |-> acc.heap]

\* ToolboxClient.load_toolset after the manifest was fetched (client.py 288-342)
load_toolset(h, name, manifest, getters, bound_params, headers, strict) ==
  LET acc == load_toolset_loop(manifest, 1,
               [fail |-> NoFailure, tools |-> <<>>, heap |-> h,
                overall_used_auth_keys |-> {}, overall_used_bound_params |-> {}],
               getters, bound_params, headers, strict)
      u == Unused(name, Keys(h[getters]), acc.overall_used_auth_keys,
                  Keys(bound_params), acc.overall_used_bound_params)
  IN IF ~acc.fail.ok THEN [fail |-> acc.fail, tools |-> <<>>, heap |-> h]
     ELSE IF ~u.ok
       THEN [fail |-> [u EXCEPT !.reason = "unused_by_any"], tools |-> <<>>, heap |-> h]
     ELSE [fail |-> NoFailure, tools |-> acc.tools, heap |-> acc.heap]

\* ------------------------------------------------------- tool.py, derivation

\* ToolboxTool.__copy: the fields named in the record o override the tool's
Copy(h, t, o) ==
  LET check(f) == IF f \in DOMAIN o THEN o[f] ELSE t[f]
  IN ToolboxTool(h, check("name"), check("params"), check("authn"), check("authz"),
                 check("getters"), check("bound"), check("headers"))

\* faulty variant: only re-binding is rejected
RECURSIVE bind_params_check_rebind_only(_, _, _, _)
bind_params_check_rebind_only(h, t, names, i) ==
  IF i > Len(names) THEN <<>>
  ELSE IF names[i] \in Keys(h[t.bound]) THEN <<"rebind", names[i]>>
  ELSE bind_params_check_rebind_only(h, t, names, i + 1)

\* the first name of bound_params (a sequence of keys) that bind_params
\* rejects, as <<reason, name>>, or <<>>
RECURSIVE bind_params_check(_, _, _, _)
bind_params_check(h, t, names, i) ==
  IF i > Len(names) THEN <<>>
  ELSE IF names[i] \in Keys(h[t.bound]) THEN <<"rebind", names[i]>>
  ELSE IF names[i] \notin ParamNames(t.params) THEN <<"no_param", names[i]>>
  ELSE bind_params_check(h, t, names, i + 1)

\* faulty variant: the bound parameters stay in the signature
bind_params_keeps_params(h, t, names) ==
  LET bad == bind_params_check(h, t, names, 1)
      all_bound_params == Merge(h[t.bound], BoundDict(Range(names)))
      h1 == Append(h, all_bound_params)
      made == Copy(h1, t, [bound |-> Len(h1)])
  IN IF bad # <<>>
       THEN [fail |-> Failure("ValueError", bad[1], bad[2], {}, {}), tools |-> <<>>, heap |-> h]
     ELSE [fail |-> NoFailure, tools |-> <<made.tool>>, heap |-> h1]

\* faulty variant: the receiver's own bound-parameter dict is updated and shared
bind_params_in_place(h, t, names) ==
  LET bad == bind_params_check(h, t, names, 1)
      new_params == SelectSeq(t.params, LAMBDA p : p.name \notin Range(names))
      all_bound_params == Merge(h[t.bound], BoundDict(Range(names)))
      h1 == [h EXCEPT ![t.bound] = all_bound_params]
      made == Copy(h1, t, [params |-> new_params])
  IN IF bad # <<>>
       THEN [fail |-> Failure("ValueError", bad[1], bad[2], {}, {}), tools |-> <<>>, heap |-> h]
     ELSE [fail |-> NoFailure, tools |-> <<made.tool>>, heap |-> h1]

\* ToolboxTool.bind_params: names are the keys of the caller's mapping in order
bind_params(h, t, names) ==
  LET bad == bind_params_check(h, t, names, 1)
      new_params == SelectSeq(t.params, LAMBDA p : p.name \notin Range(names))
      all_bound_params == Merge(h[t.bound], BoundDict(Range(names)))
      h1 == Append(h, all_bound_params)
      made == Copy(h1, t, [params |-> new_params, bound |-> Len(h1)])
  IN IF bad # <<>>
       THEN [fail |-> Failure("ValueError", bad[1], bad[2], {}, {}), tools |-> <<>>, heap |-> h]
     ELSE IF ~made.fail.ok THEN [fail |-> made.fail, tools |-> <<>>, heap |-> h]
     ELSE [fail |-> NoFailure, tools |-> <<made.tool>>, heap |-> h1]

\* faulty variant: a source that satisfies nothing is accepted
add_auth_accepts_unused(h, t, incoming) ==
  LET existing_services == Keys(h[t.getters])
      duplicates == existing_services \cap incoming
      header_duplicates == Keys(h[t.headers]) \cap {get_auth_header(s) : s \in incoming}
      new_getters == Merge(h[t.getters], GetterDict(incoming))
      ident == identify_auth_requirements(View(h, t).authn, t.authz, incoming)
      unused_auth == {}
      h1 == h \o <<new_getters, Restrict(h[t.authn], Keys(ident.authn))>>
      made == Copy(h1, t, [getters |-> Len(h) + 1, authn |-> Len(h) + 2, authz |-> ident.authz])
  IN IF duplicates # {}
       THEN [fail |-> Failure("ValueError", "already_registered", t.name, duplicates, {}),
             tools |-> <<>>, heap |-> h]
     ELSE IF header_duplicates # {}
       THEN [fail |-> Failure("ValueError", "header_conflict", t.name, header_duplicates, {}),
             tools |-> <<>>, heap |-> h]
     ELSE IF unused_auth # {}
       THEN [fail |-> Failure("ValueError", "unused", t.name, unused_auth, {}),
             tools |-> <<>>, heap |-> h]
     ELSE IF ~made.fail.ok THEN [fail |-> made.fail, tools |-> <<>>, heap |-> h]
     ELSE [fail |-> NoFailure, tools |-> <<made.tool>>, heap |-> h1]

\* faulty variant: sources already registered are skipped, not rejected
add_auth_skips_registered(h, t, given) ==
  LET existing_services == Keys(h[t.getters])
      incoming == given \ existing_services
      duplicates == {}
      header_duplicates == Keys(h[t.headers]) \cap {get_auth_header(s) : s \in incoming}
      new_getters == Merge(h[t.getters], GetterDict(incoming))
      ident == identify_auth_requirements(View(h, t).authn, t.authz, incoming)
      unused_auth == incoming \ ident.used
      h1 == h \o <<new_getters, Restrict(h[t.authn], Keys(ident.authn))>>
      made == Copy(h1, t, [getters |-> Len(h) + 1, authn |-> Len(h) + 2, authz |-> ident.authz])
  IN IF duplicates # {}
       THEN [fail |-> Failure("ValueError", "already_registered", t.name, duplicates, {}),
             tools |-> <<>>, heap |-> h]
     ELSE IF header_duplicates # {}
       THEN [fail |-> Failure("ValueError", "header_conflict", t.name, header_duplicates, {}),
             tools |-> <<>>, heap |-> h]
     ELSE IF unused_auth # {}
       THEN [fail |-> Failure("ValueError", "unused", t.name, unused_auth, {}),
             tools |-> <<>>, heap |-> h]
     ELSE IF ~made.fail.ok THEN [fail |-> made.fail, tools |-> <<>>, heap |-> h]
     ELSE [fail |-> NoFailure, tools |-> <<made.tool>>, heap |-> h1]

\* faulty variant: a source is unused only if the tool's schema never asked for it
add_auth_unused_by_schema(h, t, incoming) ==
  LET existing_services == Keys(h[t.getters])
      duplicates == existing_services \cap incoming
      header_duplicates == Keys(h[t.headers]) \cap {get_auth_header(s) : s \in incoming}
      new_getters == Merge(h[t.getters], GetterDict(incoming))
      ident == identify_auth_requirements(View(h, t).authn, t.authz, incoming)
      schema == SchemaOf(t.name)
      unused_auth == {s \in incoming :
                        /\ s \notin Range(schema.authRequired)
                        /\ \A i \in DOMAIN schema.parameters :
                             s \notin Range(schema.parameters[i].authSources)}
      h1 == h \o <<new_getters, Restrict(h[t.authn], Keys(ident.authn))>>
      made == Copy(h1, t, [getters |-> Len(h) + 1, authn |-> Len(h) + 2, authz |-> ident.authz])
  IN IF duplicates # {}
       THEN [fail |-> Failure("ValueError", "already_registered", t.name, duplicates, {}),
             tools |-> <<>>, heap |-> h]
     ELSE IF header_duplicates # {}
       THEN [fail |-> Failure("ValueError", "header_conflict", t.name, header_duplicates, {}),
             tools |-> <<>>, heap |-> h]
     ELSE IF unused_auth # {}
       THEN [fail |-> Failure("ValueError", "unused", t.name, unused_auth, {}),
             tools |-> <<>>, heap |-> h]
     ELSE IF ~made.fail.ok THEN [fail |-> made.fail, tools |-> <<>>, heap |-> h]
     ELSE [fail |-> NoFailure, tools |-> <<made.tool>>, heap |-> h1]

\* faulty variant: a getter that is used clears every requirement of the tool
add_auth_clears_all(h, t, incoming) ==
  LET existing_services == Keys(h[t.getters])
      duplicates == existing_services \cap incoming
      header_duplicates == Keys(h[t.headers]) \cap {get_auth_header(s) : s \in incoming}
      new_getters == Merge(h[t.getters], GetterDict(incoming))
      ident == identify_auth_requirements(View(h, t).authn, t.authz, incoming)
      unused_auth == incoming \ ident.used
      h1 == h \o <<new_getters, Restrict(h[t.authn], {})>>
      made == Copy(h1, t, [getters |-> Len(h) + 1, authn |-> Len(h) + 2, authz |-> <<>>])
  IN IF duplicates # {}
       THEN [fail |-> Failure("ValueError", "already_registered", t.name, duplicates, {}),
             tools |-> <<>>, heap |-> h]
     ELSE IF header_duplicates # {}
       THEN [fail |-> Failure("ValueError", "header_conflict", t.name, header_duplicates, {}),
             tools |-> <<>>, heap |-> h]
     ELSE IF unused_auth # {}
       THEN [fail |-> Failure("ValueError", "unused", t.name, unused_auth, {}),
             tools |-> <<>>, heap |-> h]
     ELSE IF ~made.fail.ok THEN [fail |-> made.fail, tools |-> <<>>, heap |-> h]
     ELSE [fail |-> NoFailure, tools |-> <<made.tool>>, heap |-> h1]

\* ToolboxTool.add_auth_token_getters: incoming are the keys of the caller's mapping
add_auth_token_getters(h, t, incoming) ==
  LET existing_services == Keys(h[t.getters])
      duplicates == existing_services \cap incoming
      header_duplicates == Keys(h[t.headers]) \cap {get_auth_header(s) : s \in incoming}
      new_getters == Merge(h[t.getters], GetterDict(incoming))
      ident == identify_auth_requirements(View(h, t).authn, t.authz, incoming)
      unused_auth == incoming \ ident.used
      h1 == h \o <<new_getters, Restrict(h[t.authn], Keys(ident.authn))>>
      made == Copy(h1, t, [getters |-> Len(h) + 1, authn |-> Len(h) + 2, authz |-> ident.authz])
  IN IF duplicates # {}
       THEN [fail |-> Failure("ValueError", "already_registered", t.name, duplicates, {}),
             tools |-> <<>>, heap |-> h]
     ELSE IF header_duplicates # {}
       THEN [fail |-> Failure("ValueError", "header_conflict", t.name, header_duplicates, {}),
             tools |-> <<>>, heap |-> h]
     ELSE IF unused_auth # {}
       THEN [fail |-> Failure("ValueError", "unused", t.name, unused_auth, {}),
             tools |-> <<>>, heap |-> h]
     ELSE IF ~made.fail.ok THEN [fail |-> made.fail, tools |-> <<>>, heap |-> h]
     ELSE [fail |-> NoFailure, tools |-> <<made.tool>>, heap |-> h1]

\* ------------------------------------------------------- tool.py, invocation

\* argument values, tagged with their Python type
StrV == [type |-> "string", val |-> "Boston"]
IntV == [type |-> "integer", val |-> "10"]
NumStrV == [type |-> "string", val |-> "10"]
NoneV == [type |-> "NoneType", val |-> "None"]

\* the parameters of __signature__: required first, then optional (tool.py 97-100)
ordered_params(params) ==
  SelectSeq(params, LAMBDA p : p.required) \o SelectSeq(params, LAMBDA p : ~p.required)

\* Signature.bind(*args, **kwargs): TRUE when it binds, FALSE when it raises TypeError
signature_binds(params, args, kwargs) ==
  LET ps == ordered_params(params)
      positional == {ps[i].name : i \in {j \in DOMAIN ps : j <= Len(args)}}
  IN /\ Len(args) <= Len(ps)
     /\ Keys(kwargs) \subseteq ParamNames(params)
     /\ Keys(kwargs) \cap positional = {}
     /\ \A i \in DOMAIN ps : ps[i].required => (i <= Len(args) \/ ps[i].name \in Keys(kwargs))

\* BoundArguments.arguments: the supplied arguments by parameter name
bound_arguments(params, args, kwargs) ==
  LET ps == ordered_params(params)
  IN Merge([n \in {ps[i].name : i \in DOMAIN args} |->
              args[CHOOSE i \in DOMAIN args : ps[i].name = n]], kwargs)

\* a field of the pydantic model accepts a value (the model of create_model
\* validates in pydantic's default, lax mode): a str field takes a str only;
\* an int field takes an int and also a str that reads as an integer; an
\* Optional field takes None
field_accepts(p, v) ==
  \/ p.type = "string" /\ v.type = "string"
  \/ p.type = "integer" /\ (v.type = "integer" \/ v = NumStrV)
  \/ ~p.required /\ v = NoneV

\* the pydantic model of params_to_pydantic_model accepts the payload
model_validates(params, payload) ==
  \A i \in DOMAIN params :
    params[i].name \in Keys(payload) => field_accepts(params[i], payload[params[i].name])

\* faulty variant: a provider is called once and its first value kept
resolve_value_once(source, at) == [type |-> "resolved", val |-> source, at |-> 1]

\* utils.resolve_value of a bound value, a header value or a token getter.
\* Every source of the model is a callable: it is called, and what it returns
\* is the provider's value at that instant.
resolve_value(source, at) == [type |-> "resolved", val |-> source, at |-> at]

\* what happens to the invocation outside the tool: a provider raises while
\* it is resolved; the POST fails in transport (a timeout, a refused
\* connection); or the server answers with a status and a JSON body
Responses == {"result", "body", "error", "status", "transport", "provider"}

\* the response of the server: resp.ok and the JSON body
ResponseOf(r) ==
  CASE r = "result" -> [ok |-> TRUE,  body |-> [result |-> "rows"]]
    [] r = "body"   -> [ok |-> TRUE,  body |-> [rows |-> "rows"]]
    [] r = "error"  -> [ok |-> FALSE, body |-> [error |-> "denied"]]
    [] r = "status" -> [ok |-> FALSE, body |-> [detail |-> "teapot"]]

\* dict.get(key, default)
Get(d, key, default) == IF key \in Keys(d) THEN d[key] ELSE default

\* the environment of one invocation: what happens outside (resp), the
\* instant, and whether the session is closed
Env(resp, at, closed) == [resp |-> resp, at |-> at, closed |-> closed]

\* an invocation that has issued nothing yet
Unissued ==
  [fail |-> NoFailure, trace |-> <<>>, resolved |-> {}, request |-> <<>>,
   resp |-> "none", returned |-> <<>>, message |-> <<>>]

\* the auth check of ToolboxTool.__call__ (tool.py 262-275): the
\* PermissionError naming the services that would resolve it, or no failure
auth_check(h, t) ==
  LET req_auth_services ==
        UNION {Range(View(h, t).authn[p]) : p \in Keys(h[t.authn])} \cup Range(t.authz)
  IN IF Keys(h[t.authn]) # {} \/ Len(t.authz) > 0
       THEN Failure("PermissionError", "auth_required", t.name, req_auth_services, {})
       ELSE NoFailure

\* faulty variant: a failed POST is sent once more
post_retry(t, body, headers, env, sofar) ==
  LET request == [tool |-> t.name, path |-> "/api/tool/" \o t.name \o "/invoke",
                  body |-> body, headers |-> headers]
      sent == [sofar EXCEPT !.trace = Append(sofar.trace, "post"),
                            !.request = <<request>>, !.resp = env.resp]
      again == [sent EXCEPT !.request = <<request, request>>]
      answer == ResponseOf(env.resp)
  IN IF env.closed
       THEN [sofar EXCEPT !.trace = Append(sofar.trace, "post"),
                          !.fail = Failure("RuntimeError", "session_closed", t.name, {}, {})]
     ELSE IF env.resp = "transport"
       THEN [again EXCEPT !.fail = Failure("ClientError", "transport", t.name, {}, {})]
     ELSE IF ~answer.ok
       THEN [again EXCEPT !.fail = Failure("Exception", "server", t.name, {}, {}),
                          !.message = <<Get(answer.body, "error", "unexpected status from server")>>]
     ELSE [sent EXCEPT !.returned = <<Get(answer.body, "result", answer.body)>>]

\* async with self.__session.post(...) and what follows it (tool.py 307-316):
\* on a closed session aiohttp raises RuntimeError("Session is closed") and
\* sends nothing
post(t, body, headers, env, sofar) ==
  LET request == [tool |-> t.name, path |-> "/api/tool/" \o t.name \o "/invoke",
                  body |-> body, headers |-> headers]
      sent == [sofar EXCEPT !.trace = Append(sofar.trace, "post"),
                            !.request = <<request>>, !.resp = env.resp]
      answer == ResponseOf(env.resp)
  IN IF env.closed
       THEN [sofar EXCEPT !.trace = Append(sofar.trace, "post"),
                          !.fail = Failure("RuntimeError", "session_closed", t.name, {}, {})]
     ELSE IF env.resp = "transport"
       THEN [sent EXCEPT !.fail = Failure("ClientError", "transport", t.name, {}, {})]
     ELSE IF ~answer.ok
       THEN [sent EXCEPT !.fail = Failure("Exception", "server", t.name, {}, {}),
                         !.message = <<Get(answer.body, "error", "unexpected status from server")>>]
     ELSE [sent EXCEPT !.returned = <<Get(answer.body, "result", answer.body)>>]

\* faulty variant: a client header wins over the auth header of the same name
request_headers_client_wins(h, t, at) ==
  LET services == Keys(h[t.getters])
  IN Merge([n \in {get_auth_header(s) : s \in services} |->
              resolve_value(h[t.getters][CHOOSE s \in services : get_auth_header(s) = n], at)],
           [n \in Keys(h[t.headers]) |-> resolve_value(h[t.headers][n], at)])

\* the headers of the request (tool.py 297-305): the client headers, then the
\* auth headers written over them
request_headers(h, t, at) ==
  LET services == Keys(h[t.getters])
  IN Merge([n \in Keys(h[t.headers]) |-> resolve_value(h[t.headers][n], at)],
           [n \in {get_auth_header(s) : s \in services} |->
              resolve_value(h[t.getters][CHOOSE s \in services : get_auth_header(s) = n], at)])

\* faulty variant: the providers are resolved before the arguments are checked
call_resolve_first(h, t, args, kwargs, env) ==
  LET payload == bound_arguments(t.params, args, kwargs)
      bound_names == Keys(h[t.bound])
      overlaid == Merge(payload, [n \in bound_names |-> resolve_value(h[t.bound][n], env.at)])
      body == Restrict(overlaid, {n \in Keys(overlaid) : overlaid[n] # NoneV})
      resolutions == {<<"resolve_bound", n>> : n \in bound_names}
                       \cup {<<"resolve_header", n>> : n \in Keys(h[t.headers])}
                       \cup {<<"resolve_token", s>> : s \in Keys(h[t.getters])}
      resolving == [Unissued EXCEPT !.trace = <<"resolve">>, !.resolved = resolutions]
  IN IF env.resp = "provider" /\ resolutions # {}
       THEN [resolving EXCEPT !.fail = Failure("ProviderError", "provider", t.name, {}, {}),
                              !.resolved = {}]
     ELSE IF ~signature_binds(t.params, args, kwargs)
       THEN [resolving EXCEPT !.fail = Failure("TypeError", "bind", t.name, {}, {}),
                              !.trace = <<"resolve", "bind">>]
     ELSE IF ~model_validates(t.params, payload)
       THEN [resolving EXCEPT !.fail = Failure("ValidationError", "validate", t.name, {}, {}),
                              !.trace = <<"resolve", "bind", "validate">>]
     ELSE post(t, body, request_headers(h, t, env.at), env,
               [resolving EXCEPT !.trace = <<"resolve", "bind", "validate">>])

\* ToolboxTool.__call__ past the auth check (tool.py 277-316).  trace lists,
\* in order, the phases the invocation went through: "bind", "validate",
\* "resolve" (resolved holds every provider resolution made), "post".
call_checked(h, t, args, kwargs, env) ==
  LET payload == bound_arguments(t.params, args, kwargs)
      bound_names == Keys(h[t.bound])
      overlaid == Merge(payload, [n \in bound_names |-> resolve_value(h[t.bound][n], env.at)])
      body == Restrict(overlaid, {n \in Keys(overlaid) : overlaid[n] # NoneV})
      resolutions == {<<"resolve_bound", n>> : n \in bound_names}
                       \cup {<<"resolve_header", n>> : n \in Keys(h[t.headers])}
                       \cup {<<"resolve_token", s>> : s \in Keys(h[t.getters])}
      resolving == [Unissued EXCEPT !.trace = <<"bind", "validate", "resolve">>]
  IN IF ~signature_binds(t.params, args, kwargs)
       THEN [Unissued EXCEPT !.fail = Failure("TypeError", "bind", t.name, {}, {}),
                             !.trace = <<"bind">>]
     ELSE IF ~model_validates(t.params, payload)
       THEN [Unissued EXCEPT !.fail = Failure("ValidationError", "validate", t.name, {}, {}),
                             !.trace = <<"bind", "validate">>]
     ELSE IF env.resp = "provider" /\ resolutions # {}
       THEN [resolving EXCEPT !.fail = Failure("ProviderError", "provider", t.name, {}, {})]
     ELSE post(t, body, request_headers(h, t, env.at), env,
               [resolving EXCEPT !.resolved = resolutions])

\* faulty variant: the arguments are bound and validated before the auth check
call_validate_first(h, t, args, kwargs, env) ==
  LET c == call_checked(h, t, args, kwargs, env)
  IN IF c.fail.reason \in {"bind", "validate"} THEN c
     ELSE IF ~auth_check(h, t).ok THEN [Unissued EXCEPT !.fail = auth_check(h, t)]
     ELSE c

\* ToolboxTool.__call__ (tool.py 247-316)
call(h, t, args, kwargs, env) ==
  IF ~auth_check(h, t).ok THEN [Unissued EXCEPT !.fail = auth_check(h, t)]
  ELSE call_checked(h, t, args, kwargs, env)

\* --------------------------------------------------------------- the state

VARIABLES heap, tools, born, client_headers, last
\* heap:           the shared Python objects (dicts, lists), by reference
\* tools:          the ToolboxTool objects created so far, in creation order
\* born:           for each tool, the operation that returned it and the tool
\*                 it was derived from (0 for a load)
\* client_headers: reference to ToolboxClient.__client_headers
\* last:           the last operation, its inputs and its outcome

VARIABLES now, session
\* now:            the instant of the environment: what a provider (a callable
\*                 bound value, header value or token getter) returns when
\*                 it is called depends on it
\* session:        the client's aiohttp session: whether the client created
\*                 it, whether it is closed, and how often the client closed it

VARIABLES ident
\* ident:          the arguments and the result of one application of
\*                 identify_auth_requirements

VARIABLES cache, clock, threads
\* cache:          auth_methods._token_cache
\* clock:          the wall clock read by auth_methods._is_token_valid
\* threads:        the threads running get_google_token_from_aud

VARIABLES tasks, facade, disk
\* tasks:          the invocations in flight on the event loop, each with the
\*                 local variables of its ToolboxTool.__call__
\* facade:         ToolboxSyncClient's class attributes and the threads that
\*                 construct sync clients
\* disk:           the lab folder load_task works in, and its run

vars == <<heap, tools, born, client_headers, last, now, session, ident, cache, clock, threads, tasks, facade, disk>>

\* what the operations on tools never write
envVars == <<now, session>>

\* what the client and its tools have no access to
aside == <<ident, cache, clock, threads, tasks, facade, disk>>

\* caller-supplied client header names (ToolboxClient.__init__)
HeaderSets == {{}, {"a_token"}}

HeaderValue(n) == "hdr_" \o n

\* caller-supplied bound-parameter key sets
BoundSets == {Range(s) : s \in DistinctSeqs(MaxBind)}

Outcome(op, recv, name, strict, getters, bound, resp, r, first) ==
  [op |-> op, recv |-> recv, name |-> name, strict |-> strict,
   getters |-> getters, bound |-> bound,
   ok |-> r.fail.ok, err |-> r.fail.err, reason |-> r.fail.reason,
   culprit |-> r.fail.culprit, names_auth |-> r.fail.names_auth,
   names_bound |-> r.fail.names_bound,
   made |-> [i \in 1..Len(r.tools) |-> first + i],
   args |-> <<>>, kwargs |-> <<>>, trace |-> <<>>, resolved |-> {},
   request |-> <<>>, resp |-> resp, headers |-> {},
   returned |-> <<>>, message |-> <<>>]

NoOutcome ==
  [op |-> "init", recv |-> 0, name |-> "", strict |-> FALSE, getters |-> {},
   bound |-> <<>>, ok |-> TRUE, err |-> "", reason |-> "", culprit |-> "",
   names_auth |-> {}, names_bound |-> {}, made |-> <<>>,
   args |-> <<>>, kwargs |-> <<>>, trace |-> <<>>, resolved |-> {},
   request |-> <<>>, resp |-> "none", headers |-> {},
   returned |-> <<>>, message |-> <<>>]

\* ToolboxClient.__init__ (client.py 59-68): the client holds the caller's
\* client_headers mapping itself
ClientInit ==
  /\ \E hs \in HeaderSets : heap = <<[x \in hs |-> HeaderValue(x)]>>
  /\ client_headers = 1
  /\ tools = <<>>
  /\ born = <<>>
  /\ last = NoOutcome
  /\ now = 1

\* the session of ToolboxClient(url): created by the client (client.py 63-66)
\* calls counts the close() calls made, closes the times the client closed
\* the session
OwnSession == [managed |-> TRUE, closed |-> FALSE, closes |-> 0, calls |-> 0]

\* the session of ToolboxClient(url, session): the caller's, open or closed
\* by the caller
GivenSession(closed) == [managed |-> FALSE, closed |-> closed, closes |-> 0, calls |-> 0]

\* no function applied yet
NoIdent ==
  [given |-> <<>>, authn |-> <<>>, authz |-> <<>>, available |-> {},
   applied |-> FALSE, out |-> <<>>]

\* auth_methods._token_cache at import (auth_methods.py 45-48): no token,
\* expires_at = datetime.min
\* aud is the "aud" claim inside the token string held in token ("" for None)
EmptyCache == [token |-> 0, expires_at |-> 0, aud |-> ""]

\* nothing of what the client has no access to is in use
AsideInit ==
  /\ ident = NoIdent
  /\ cache = EmptyCache
  /\ clock = 1
  /\ threads = <<>>
  /\ tasks = <<>>
  /\ facade = <<>>
  /\ disk = <<>>

Init ==
  /\ ClientInit
  /\ session = OwnSession
  /\ AsideInit

\* An operation that raises, or returns no tool, leaves heap, tools and
\* client_headers as they were (Frame below is checked), so what can follow
\* it is what can follow the state it left: such a step is explored as a leaf.
Live ==
  \/ last.op = "init"
  \/ last.made # <<>>
  \/ last.op = "add_headers" /\ last.ok

\* the commit of an operation that returns tools (or raises); objects no
\* tool refers to are not kept in the heap
Returns(op, recv, name, strict, getters, bound, resp, r) ==
  /\ Len(tools) + Len(r.tools) <= MaxTools
  /\ heap' = IF r.tools # <<>> THEN r.heap ELSE heap
  /\ tools' = tools \o r.tools
  /\ born' = born \o [i \in 1..Len(r.tools) |->
                        [op |-> op, from |-> recv]]
  /\ last' = Outcome(op, recv, name, strict, getters, bound, resp, r, Len(tools))
  /\ UNCHANGED <<client_headers, envVars, aside>>

HttpError == [fail |-> Failure("RuntimeError", "http", "", {}, {}), tools |-> <<>>, heap |-> <<>>]

\* session.get on a closed session: aiohttp raises RuntimeError("Session is closed")
ClosedError ==
  [fail |-> Failure("RuntimeError", "session_closed", "", {}, {}), tools |-> <<>>, heap |-> <<>>]

\* load_tool / load_toolset are taken while no tool exists, and again right
\* after the client's headers changed (tools of separate loads share nothing
\* but the client's header mapping).
CanLoad == tools = <<>> \/ last.op = "add_headers"

\* ToolboxClient.load_tool: the server answers GET /api/tool/{name} with the
\* tool's manifest, with a manifest that lacks the tool, or with an error status
LoadTool ==
  /\ Live
  /\ CanLoad
  /\ \E name \in ToolNames, resp \in {"ok", "lacking", "error"},
        g \in SUBSET Services, b \in BoundSets :
       LET h0 == Append(heap, GetterDict(g))
           manifest == IF resp = "ok" THEN <<Entry(name)>> ELSE <<>>
           r == IF session.closed THEN ClosedError
                ELSE IF resp = "error" THEN HttpError
                ELSE load_tool(h0, name, manifest, Len(h0),
                               BoundDict(b), client_headers)
       IN /\ resp # "ok" => (g = {} /\ b = {})
          /\ session.closed => resp = "error"
          /\ Returns("load_tool", 0, name, FALSE, g, b, resp, r)

\* ToolboxClient.load_toolset: the server answers GET /api/toolset/{name}
LoadToolset ==
  /\ Live
  /\ CanLoad
  /\ \E name \in ToolsetNames, resp \in {"ok", "error"},
        g \in SUBSET Services, b \in BoundSets, strict \in BOOLEAN :
       LET h0 == Append(heap, GetterDict(g))
           r == IF session.closed THEN ClosedError
                ELSE IF resp = "error" THEN HttpError
                ELSE load_toolset(h0, name, ToolsetOf(name), Len(h0),
                                  BoundDict(b), client_headers, strict)
       IN /\ resp = "error" => (g = {} /\ b = {} /\ ~strict)
          /\ session.closed => resp = "error"
          /\ Returns("load_toolset", 0, name, strict, g, b, resp, r)

\* ToolboxTool.bind_params (bind_param is the one-name call of it)
BindParams ==
  /\ Live
  /\ \E i \in DOMAIN tools, names \in DistinctSeqs(MaxBind) :
       Returns("bind_params", i, tools[i].name, FALSE, {}, names, "none",
               bind_params(heap, tools[i], names))

\* ToolboxTool.add_auth_token_getters (add_auth_token_getter is the one-name call)
AddAuthTokenGetters ==
  /\ Live
  /\ \E i \in DOMAIN tools, g \in SUBSET Services :
       Returns("add_auth_token_getters", i, tools[i].name, FALSE, g, <<>>, "none",
               add_auth_token_getters(heap, tools[i], g))

\* the arguments of the invocations explored: (args, kwargs)
CallInputs ==
  {<<<<>>, <<>>>>,
   <<<<>>, [city |-> StrV]>>,
   <<<<StrV>>, [limit |-> IntV]>>,
   <<<<>>, [city |-> IntV]>>,
   <<<<>>, [city |-> StrV, limit |-> NoneV]>>,
   <<<<>>, [city |-> StrV, uid |-> StrV]>>,
   <<<<>>, [city |-> StrV, limit |-> NumStrV]>>,
   <<<<StrV, IntV>>, <<>>>>}

\* the invocation has something to resolve
HasProviders(h, t) == Keys(h[t.bound]) \cup Keys(h[t.headers]) \cup Keys(h[t.getters]) # {}

\* ToolboxTool.__call__: one invocation, from the call to its return or raise.
\* What happens outside is chosen only where the invocation gets that far.
Invoke(i) ==
  \E in \in CallInputs, resp \in Responses :
    LET c == call(heap, tools[i], in[1], in[2], Env(resp, now, session.closed))
        base == Outcome("call", i, tools[i].name, FALSE, {}, <<>>, c.resp,
                        [fail |-> c.fail, tools |-> <<>>], Len(tools))
    IN /\ resp = "provider" => HasProviders(heap, tools[i])
       /\ ("resolve" \notin Range(c.trace) \/ session.closed) => resp = "result"
       /\ last' = [base EXCEPT !.args = in[1], !.kwargs = in[2], !.trace = c.trace,
                               !.resolved = c.resolved, !.request = c.request,
                               !.returned = c.returned, !.message = c.message]
       /\ UNCHANGED <<heap, tools, born, client_headers, envVars, aside>>

\* invocations follow the operations that return tools and the steps of the
\* environment
CanCall == Live \/ last.op \in {"tick", "close", "mutate"}

Call ==
  /\ CanCall
  /\ \E i \in DOMAIN tools : Invoke(i)

\* time passes: the providers return other values from now on.  No
\* operation but an invocation calls a provider, so the step is explored
\* where invocations follow it.
Tick ==
  /\ Live \/ last.op = "tick"
  /\ tools # <<>>
  /\ now < MaxInstant
  /\ now' = now + 1
  /\ last' = [NoOutcome EXCEPT !.op = "tick"]
  /\ UNCHANGED <<heap, tools, born, client_headers, session, aside>>

\* header names a caller adds with add_headers
AddHeaderSets == {{"a_token"}}

\* ToolboxClient.add_headers (client.py 347-367): raises ValueError on a name
\* the client already has, otherwise the client switches to a new merged dict
add_headers(h, headers, incoming) ==
  LET duplicates == Keys(h[headers]) \cap incoming
      merged_headers == Merge(h[headers], [x \in incoming |-> HeaderValue(x)])
  IN IF duplicates # {}
       THEN [fail |-> Failure("ValueError", "already_registered", "", duplicates, {}),
             heap |-> h, headers |-> headers]
       ELSE [fail |-> NoFailure, heap |-> Append(h, merged_headers),
             headers |-> Len(h) + 1]

\* add_headers touches the client only and commutes with the derivations of
\* tools, so it is explored right after construction or a load.
AddHeaders ==
  /\ last.op \in {"init", "load_tool", "load_toolset"} /\ last.ok
  /\ \E hs \in AddHeaderSets :
       LET r == add_headers(heap, client_headers, hs)
           base == Outcome("add_headers", 0, "", FALSE, {}, <<>>, "none",
                           [fail |-> r.fail, tools |-> <<>>], Len(tools))
       IN /\ heap' = r.heap
          /\ client_headers' = r.headers
          /\ last' = [base EXCEPT !.headers = hs]
          /\ UNCHANGED <<tools, born, envVars, aside>>

Next ==
  \/ LoadTool
  \/ LoadToolset
  \/ BindParams
  \/ AddAuthTokenGetters
  \/ Call

Spec == Init /\ [][Next]_vars

\* the operations of Spec while time passes
NextInvoke == Next \/ Tick

SpecInvoke == Init /\ [][NextInvoke]_vars

\* ------------------------------------------------------------ the session

\* faulty variant: close() closes whatever session the client has
close_any(s) == [s EXCEPT !.closed = TRUE, !.closes = @ + 1]

\* faulty variant: close() leaves the session open
close_nothing(s) == s

\* ToolboxClient.close (client.py 144-153), also what __aexit__ runs
close(s) ==
  IF s.managed /\ ~s.closed
    THEN [s EXCEPT !.closed = TRUE, !.closes = @ + 1]
    ELSE s

\* close() touches the session only, so it is explored where invocations
\* and further close() calls follow it
Close ==
  /\ Live \/ last.op = "close"
  /\ session.calls < MaxCloses
  /\ session' = [close(session) EXCEPT !.calls = @ + 1]
  /\ last' = [NoOutcome EXCEPT !.op = "close"]
  /\ UNCHANGED <<heap, tools, born, client_headers, now, aside>>

\* a client with its own session or with one the caller supplies
SessionInit ==
  /\ ClientInit
  /\ session \in {OwnSession, GivenSession(FALSE), GivenSession(TRUE)}
  /\ AsideInit

\* loading one tool, deriving from it, invoking, closing
NextSession ==
  \/ LoadTool
  \/ BindParams
  \/ AddAuthTokenGetters
  \/ Call
  \/ Close

SpecSession == SessionInit /\ [][NextSession]_vars

\* ------------------------------------------- the caller's own references

\* The objects a caller holds a reference to and how it can write to them:
\* the client_headers dict it gave the client (cell 1; client.py 68 keeps
\* the dict itself), the auth_token_getters dict it gave a load (the cell a
\* loaded tool's getters refer to; client.py 113 wraps the dict itself in a
\* MappingProxyType), and every list inside _required_authn_params (the
\* accessor's MappingProxyType hands out the lists themselves, tool.py 164-166).
\* Each element is <<kind, cell, new value of the cell>>.
CallerWrites ==
  {<<"client_headers", 1, Merge(heap[1], [x \in {"a_token"} |-> HeaderValue(x)])>>}
  \cup {<<"auth_token_getters", tools[i].getters,
          Merge(heap[tools[i].getters], GetterDict({x}))>> :
          i \in {j \in DOMAIN tools : born[j].from = 0}, x \in Services}
  \cup {<<"auth_token_getters", tools[i].getters,
          Restrict(heap[tools[i].getters], Keys(heap[tools[i].getters]) \ {x})>> :
          i \in {j \in DOMAIN tools : born[j].from = 0}, x \in Services}
  \cup UNION {UNION {{<<"authn_list", heap[tools[i].authn][q], <<>>>>,
                      <<"authn_list", heap[tools[i].authn][q],
                        Append(heap[heap[tools[i].authn][q]], "c")>>} :
                      q \in Keys(heap[tools[i].authn])} :
               i \in DOMAIN tools}

\* the caller writes to one of these objects; what is explored after it is
\* the invocations of the tools
CallerMutates ==
  /\ Live
  /\ tools # <<>>
  /\ \E w \in CallerWrites :
       /\ heap[w[2]] # w[3]
       /\ heap' = [heap EXCEPT ![w[2]] = w[3]]
       /\ last' = [NoOutcome EXCEPT !.op = "mutate", !.name = w[1], !.recv = w[2]]
  /\ UNCHANGED <<tools, born, client_headers, envVars, aside>>

\* the operations of SpecInvoke and the caller's writes
NextCaller == NextInvoke \/ CallerMutates

SpecCaller == Init /\ [][NextCaller]_vars

\* ---------------------------------- identify_auth_requirements on its own

\* lists of at most n services
RECURSIVE ServiceLists(_)
ServiceLists(n) ==
  IF n = 0 THEN {<<>>}
  ELSE ServiceLists(n - 1) \cup
       {Append(l, x) : l \in {k \in ServiceLists(n - 1) : Len(k) = n - 1}, x \in Services}

\* parameter names of the req_authn_params given
IdentParams == {"p", "q"}

\* service names a getter may be available for ("c" is in no requirement)
IdentAvailable == SUBSET (Services \cup {"c"})

\* the arguments: req_authn_params (a dict of lists), req_authz_tokens (a
\* list) and auth_service_names (the keys of a dict); `given` keeps what was
\* passed, the three fields are the argument objects as they are now
IdentInit ==
  /\ ClientInit
  /\ session = OwnSession
  /\ cache = EmptyCache /\ clock = 1 /\ threads = <<>>
  /\ tasks = <<>> /\ facade = <<>> /\ disk = <<>>
  /\ \E ps \in SUBSET IdentParams, z \in ServiceLists(MaxAlternatives), v \in IdentAvailable :
       \E d \in [ps -> ServiceLists(MaxAlternatives)] :
         ident = [given |-> [authn |-> d, authz |-> z, available |-> v],
                  authn |-> d, authz |-> z, available |-> v,
                  applied |-> FALSE, out |-> <<>>]

\* one application: the function builds a new dict, a new list and a new
\* set, and writes to none of its arguments (utils.py 78-104)
Identify ==
  /\ ~ident.applied
  /\ ident' = [ident EXCEPT
                 !.applied = TRUE,
                 !.out = identify_auth_requirements(ident.authn, ident.authz, ident.available)]
  /\ UNCHANGED <<heap, tools, born, client_headers, last, envVars, cache, clock, threads>>
  /\ UNCHANGED <<tasks, facade, disk>>

NextIdentify == Identify

SpecIdentify == IdentInit /\ [][NextIdentify]_vars

\* ----------------------------------- invocations that interleave on the loop

\* a second str value, to tell the arguments of two invocations apart
StrW == [type |-> "string", val |-> "Austin"]

\* the arguments of the invocations that run concurrently: (args, kwargs)
TaskInputs ==
  {<<<<>>, <<>>>>,
   <<<<>>, [city |-> StrV]>>,
   <<<<StrW>>, <<>>>>,
   <<<<StrW>>, [limit |-> IntV]>>}

\* faulty variant: the invocation keeps its arguments as bindings of the tool
call_writes_payload(h, t, payload) ==
  [h EXCEPT ![t.bound] = Merge(@, BoundDict(Keys(payload)))]

\* the writes of ToolboxTool.__call__ to the objects of the tool (tool.py
\* 247-316): payload, headers and body are local variables and no attribute
\* of self is assigned
call_writes(h, t, payload) == h

\* ToolboxTool.__call__ up to its first await (tool.py 262-285): the auth
\* check, the binding of the arguments, the validation of the payload
call_begin(h, t, args, kwargs) ==
  IF ~auth_check(h, t).ok
    THEN [Unissued EXCEPT !.fail = auth_check(h, t)]
  ELSE IF ~signature_binds(t.params, args, kwargs)
    THEN [Unissued EXCEPT !.fail = Failure("TypeError", "bind", t.name, {}, {}),
                          !.trace = <<"bind">>]
  ELSE IF ~model_validates(t.params, bound_arguments(t.params, args, kwargs))
    THEN [Unissued EXCEPT !.fail = Failure("ValidationError", "validate", t.name, {}, {}),
                          !.trace = <<"bind", "validate">>]
  ELSE [Unissued EXCEPT !.trace = <<"bind", "validate">>]

\* tool.py 288-294: the bound values are resolved over the payload and the
\* None values dropped
call_body(h, t, payload, at) ==
  LET overlaid == Merge(payload, [n \in Keys(h[t.bound]) |->
                                   resolve_value(h[t.bound][n], at)])
  IN Restrict(overlaid, {n \in Keys(overlaid) : overlaid[n] # NoneV})

\* every provider the invocation resolves (tool.py 288-305)
call_resolutions(h, t) ==
  {<<"resolve_bound", n>> : n \in Keys(h[t.bound])}
    \cup {<<"resolve_header", n>> : n \in Keys(h[t.headers])}
    \cup {<<"resolve_token", s>> : s \in Keys(h[t.getters])}

\* what an invocation ended with, as the last operation
CallOutcome(i, args, kwargs, c) ==
  [Outcome("call", i, tools[i].name, FALSE, {}, <<>>, c.resp,
           [fail |-> c.fail, tools |-> <<>>], Len(tools))
     EXCEPT !.args = args, !.kwargs = kwargs, !.trace = c.trace,
            !.resolved = c.resolved, !.request = c.request,
            !.returned = c.returned, !.message = c.message]

\* the invocations in flight, numbered, and those left when the k-th ends
InFlight == [j \in DOMAIN tasks |-> <<j, tasks[j]>>]

Remaining(k) ==
  LET kept == SelectSeq(InFlight, LAMBDA e : e[1] # k)
  IN [j \in DOMAIN kept |-> kept[j][2]]

TaskFrame == UNCHANGED <<born, client_headers, session, ident, cache, clock, threads, facade, disk>>

\* a caller awaits tool(*args, **kwargs): the coroutine runs to its first
\* await, or raises before it.  The invocations in flight are of one tool.
CallBegin ==
  /\ tools # <<>>
  /\ Len(tasks) < MaxTasks
  /\ \E i \in DOMAIN tools, in \in TaskInputs :
       LET c == call_begin(heap, tools[i], in[1], in[2])
           payload == bound_arguments(tools[i].params, in[1], in[2])
       IN /\ tasks # <<>> => i = tasks[1].tool
          /\ IF c.fail.ok
               THEN /\ tasks' = Append(tasks, [tool |-> i, args |-> in[1], kwargs |-> in[2],
                                               pc |-> "resolve", payload |-> payload,
                                               body |-> <<>>, headers |-> <<>>, at |-> 0])
                    /\ last' = [NoOutcome EXCEPT !.op = "begin", !.recv = i]
                    /\ heap' = call_writes(heap, tools[i], payload)
               ELSE /\ tasks' = tasks
                    /\ last' = CallOutcome(i, in[1], in[2], c)
                    /\ heap' = heap
  /\ UNCHANGED <<tools, now>>
  /\ TaskFrame

\* the invocation resumes and resolves its bound values, client headers and
\* tokens at this instant (tool.py 288-305); a provider may raise
CallResolve ==
  /\ \E k \in DOMAIN tasks, raises \in BOOLEAN :
       LET task == tasks[k]
           t == tools[task.tool]
           c == [Unissued EXCEPT !.fail = Failure("ProviderError", "provider", t.name, {}, {}),
                                 !.trace = <<"bind", "validate", "resolve">>]
       IN /\ task.pc = "resolve"
          /\ raises => HasProviders(heap, t)
          /\ IF raises
               THEN /\ tasks' = Remaining(k)
                    /\ last' = CallOutcome(task.tool, task.args, task.kwargs, c)
               ELSE /\ tasks' = [tasks EXCEPT ![k].pc = "post",
                                              ![k].body = call_body(heap, t, task.payload, now),
                                              ![k].headers = request_headers(heap, t, now),
                                              ![k].at = now]
                    /\ last' = [NoOutcome EXCEPT !.op = "resolve", !.recv = task.tool]
  /\ UNCHANGED <<heap, tools, now>>
  /\ TaskFrame

\* the invocation posts what it has built and receives the response
\* (tool.py 307-316)
CallPost ==
  /\ \E k \in DOMAIN tasks, resp \in Responses \ {"provider"} :
       LET task == tasks[k]
           t == tools[task.tool]
           sofar == [Unissued EXCEPT !.trace = <<"bind", "validate", "resolve">>,
                                     !.resolved = call_resolutions(heap, t)]
           c == post(t, task.body, task.headers, Env(resp, task.at, session.closed), sofar)
       IN /\ task.pc = "post"
          /\ tasks' = Remaining(k)
          /\ last' = CallOutcome(task.tool, task.args, task.kwargs, c)
  /\ UNCHANGED <<heap, tools, now>>
  /\ TaskFrame

\* time passes while invocations are suspended
TaskTick ==
  /\ tasks # <<>>
  /\ now < MaxInstant
  /\ now' = now + 1
  /\ last' = [NoOutcome EXCEPT !.op = "tick"]
  /\ UNCHANGED <<heap, tools, tasks>>
  /\ TaskFrame

\* one load, then invocations of the loaded tools that interleave at their
\* awaits
NextTasks ==
  \/ LoadTool
  \/ LoadToolset
  \/ CallBegin
  \/ CallResolve
  \/ CallPost
  \/ TaskTick

SpecTasks == Init /\ [][NextTasks]_vars

\* ------------------------------------------------- the synchronous facade

\* a thread that has not touched the facade yet.  loop, thread: the locals
\* of __init__; client: the loop the thread's ToolboxClient was created on;
\* tool: the loop its ToolboxSyncTool holds; job, on: the coroutine it waits
\* for and the loop it was submitted to; ran: the loops its finished
\* coroutines ran on, by kind
NewCaller ==
  [pc |-> "new", loop |-> 0, thread |-> 0, client |-> 0, tool |-> 0,
   job |-> "", on |-> 0, calls |-> 0, ran |-> {}]

\* ToolboxSyncClient.__loop and __thread are None in the class body
\* (sync_client.py 34-35); loops and threads are named 1, 2, ... as started
FacadeInit ==
  /\ ClientInit
  /\ session = OwnSession
  /\ ident = NoIdent /\ cache = EmptyCache /\ clock = 1 /\ threads = <<>>
  /\ tasks = <<>> /\ disk = <<>>
  /\ facade = [loop |-> 0, thread |-> 0, started |-> 0,
               callers |-> [c \in 1..MaxCallers |-> NewCaller]]

FacadeFrame ==
  UNCHANGED <<heap, tools, born, client_headers, last, envVars, ident, cache, clock, threads, tasks, disk>>

\* ToolboxSyncClient.__init__, line 53: if self.__class__.__loop is None
sync_init_test(f, c) ==
  [f EXCEPT !.callers[c].pc = IF f.loop = 0 THEN "create" ELSE "submit"]

SyncInit(c) ==
  /\ facade.callers[c].pc = "new"
  /\ facade' = sync_init_test(facade, c)
  /\ FacadeFrame

\* lines 54-56: loop = new_event_loop(); thread = Thread(...); thread.start()
SyncStartLoop(c) ==
  /\ facade.callers[c].pc = "create"
  /\ facade' = [facade EXCEPT !.started = facade.started + 1,
                              !.callers[c].loop = facade.started + 1,
                              !.callers[c].thread = facade.started + 1,
                              !.callers[c].pc = "set_thread"]
  /\ FacadeFrame

\* line 57: self.__class__.__thread = thread
SyncSetThread(c) ==
  /\ facade.callers[c].pc = "set_thread"
  /\ facade' = [facade EXCEPT !.thread = facade.callers[c].thread,
                              !.callers[c].pc = "set_loop"]
  /\ FacadeFrame

\* line 58: self.__class__.__loop = loop
SyncSetLoop(c) ==
  /\ facade.callers[c].pc = "set_loop"
  /\ facade' = [facade EXCEPT !.loop = facade.callers[c].loop,
                              !.callers[c].pc = "submit"]
  /\ FacadeFrame

\* lines 63-65: run_coroutine_threadsafe(create_client(), self.__class__.__loop)
\* and .result(): the class attribute is read again, the thread blocks
SyncCreateClient(c) ==
  /\ facade.callers[c].pc = "submit"
  /\ facade' = [facade EXCEPT !.callers[c].pc = "waiting",
                              !.callers[c].job = "create_client",
                              !.callers[c].on = facade.loop]
  /\ FacadeFrame

\* ToolboxSyncClient.load_tool / load_toolset (sync_client.py 104-110,
\* 145-156): the coroutine is submitted to self.__loop, which is the class
\* attribute as it is at the call, and the thread blocks in .result()
SyncLoad(c) ==
  /\ facade.callers[c].pc = "ready"
  /\ facade.callers[c].tool = 0
  /\ facade' = [facade EXCEPT !.callers[c].pc = "waiting",
                              !.callers[c].job = "load",
                              !.callers[c].on = facade.loop]
  /\ FacadeFrame

\* ToolboxSyncTool.__call__ (sync_tool.py 144-145): the coroutine is
\* submitted to the loop the tool was given when it was loaded
SyncInvoke(c) ==
  /\ facade.callers[c].pc = "ready"
  /\ facade.callers[c].tool # 0
  /\ facade.callers[c].calls < MaxSyncCalls
  /\ facade' = [facade EXCEPT !.callers[c].pc = "waiting",
                              !.callers[c].job = "invoke",
                              !.callers[c].on = facade.callers[c].tool,
                              !.callers[c].calls = @ + 1]
  /\ FacadeFrame

\* the loop the coroutine was submitted to runs it to its result or error,
\* and .result() returns or raises in the waiting thread
LoopRuns(c) ==
  /\ facade.callers[c].pc = "waiting"
  /\ facade.callers[c].on \in 1..facade.started
  /\ LET me == facade.callers[c]
     IN facade' = [facade EXCEPT
          !.callers[c].pc = "ready",
          !.callers[c].job = "",
          !.callers[c].on = 0,
          !.callers[c].ran = @ \cup {<<me.job, me.on>>},
          !.callers[c].client = IF me.job = "create_client" THEN me.on ELSE @,
          !.callers[c].tool = IF me.job = "load" THEN me.on ELSE @]
  /\ FacadeFrame

\* threads construct a sync client each, load a tool and invoke it; nothing
\* orders the steps of one thread against those of another
NextFacade ==
  \/ \E c \in 1..MaxCallers : SyncInit(c)
  \/ \E c \in 1..MaxCallers : SyncStartLoop(c)
  \/ \E c \in 1..MaxCallers : SyncSetThread(c)
  \/ \E c \in 1..MaxCallers : SyncSetLoop(c)
  \/ \E c \in 1..MaxCallers : SyncCreateClient(c)
  \/ \E c \in 1..MaxCallers : SyncLoad(c)
  \/ \E c \in 1..MaxCallers : SyncInvoke(c)
  \/ \E c \in 1..MaxCallers : LoopRuns(c)

SpecFacade == FacadeInit /\ [][NextFacade]_vars

\* ------------------------------------------------------------ load_task.py

\* TASK_FILES (load_task.py 22-115): the local paths of a task, in the order
\* of the dict.  Of task 6-solution the model keeps the three
\* requirements.txt entries and config.env; its other eight files have
\* basenames of their own.
TaskFiles(task) ==
  CASE task = "setup" -> <<"requirements.txt", "config.env", "activate.sh">>
    [] task = "6-solution" -> <<"mlb_scout_ui/requirements.txt",
                                "workspace/mlb_scout/requirements.txt",
                                "config.env",
                                "requirements.txt">>

TaskIds == {"setup", "6-solution"}

\* os.path.basename of the local paths
Basename(path) ==
  CASE path \in {"requirements.txt", "mlb_scout_ui/requirements.txt",
                 "workspace/mlb_scout/requirements.txt"} -> "requirements.txt"
    [] path = "config.env" -> "config.env"
    [] path = "activate.sh" -> "activate.sh"

\* what a file holds: nothing, what the user had, what the bucket has
Absent == "absent"
Prior(path) == "old:" \o path
Downloaded(path) == "new:" \o path

\* strftime("%Y%m%d_%H%M%S") of the wall clock, whole seconds
Timestamp(second) == second

\* a run of load_task(task, force) in a lab folder where the files in
\* existing are present and .backup is empty
DiskInit ==
  /\ ClientInit
  /\ session = OwnSession
  /\ ident = NoIdent /\ cache = EmptyCache /\ clock = 1 /\ threads = <<>>
  /\ tasks = <<>> /\ facade = <<>>
  /\ \E task \in TaskIds, force \in BOOLEAN :
       \E existing \in SUBSET Range(TaskFiles(task)) :
         LET files == [f \in Range(TaskFiles(task)) |->
                         IF f \in existing THEN Prior(f) ELSE Absent]
         IN disk = [task |-> task, force |-> force, files |-> files, before |-> files,
                    backups |-> <<>>, second |-> 1, pc |-> "start", at |-> 0,
                    success_count |-> 0, returned |-> "none"]

DiskFrame ==
  UNCHANGED <<heap, tools, born, client_headers, last, envVars, ident, cache, clock, threads, tasks, facade>>

\* create_backup (load_task.py 125-138): an existing file is copied to
\* .backup/<basename>.<timestamp>; shutil.copy2 overwrites what is there
create_backup(d, filepath) ==
  IF d.files[filepath] # Absent
    THEN [d EXCEPT !.backups = Merge(@, [b \in {<<Basename(filepath), Timestamp(d.second)>>} |->
                                           d.files[filepath]])]
    ELSE d

\* download_file (load_task.py 141-161): gsutil cp writes the file, or fails
\* and the function returns False
download_file(d, local_path, ok) ==
  IF ok THEN [d EXCEPT !.files[local_path] = Downloaded(local_path),
                       !.success_count = @ + 1]
  ELSE d

\* load_task up to its loop (load_task.py 164-227).  Every task of
\* TASK_FILES lists files, so the full-folder branch (175-208) is never
\* taken.  The user is asked when a file exists and force is off.
LoadTaskBegin ==
  /\ disk.pc = "start"
  /\ LET existing_files == {f \in Range(TaskFiles(disk.task)) : disk.files[f] # Absent}
     IN \E response \in {"y", "n", ""} :
          /\ (existing_files = {} \/ disk.force) => response = ""
          /\ (existing_files # {} /\ ~disk.force) => response # ""
          /\ disk' = IF existing_files # {} /\ ~disk.force /\ response # "y"
                       THEN [disk EXCEPT !.pc = "done", !.returned = "cancelled"]
                       ELSE [disk EXCEPT !.pc = "loop", !.at = 1]
  /\ DiskFrame

\* one turn of the loop (load_task.py 231-243): back up, then download
LoadTaskFile ==
  /\ disk.pc = "loop"
  /\ disk.at <= Len(TaskFiles(disk.task))
  /\ \E ok \in BOOLEAN :
       LET local_path == TaskFiles(disk.task)[disk.at]
           d == download_file(create_backup(disk, local_path), local_path, ok)
       IN disk' = [d EXCEPT !.at = @ + 1]
  /\ DiskFrame

\* load_task.py 245-246: the count is reported and compared
LoadTaskEnd ==
  /\ disk.pc = "loop"
  /\ disk.at > Len(TaskFiles(disk.task))
  /\ disk' = [disk EXCEPT !.pc = "done",
                          !.returned = IF disk.success_count = Len(TaskFiles(disk.task))
                                         THEN "true" ELSE "false"]
  /\ DiskFrame

\* a second of the wall clock passes during the run
DiskTick ==
  /\ disk.pc = "loop"
  /\ disk.second < MaxSecond
  /\ disk' = [disk EXCEPT !.second = @ + 1]
  /\ DiskFrame

NextDisk ==
  \/ LoadTaskBegin
  \/ LoadTaskFile
  \/ LoadTaskEnd
  \/ DiskTick

SpecDisk == DiskInit /\ [][NextDisk]_vars

\* ------------------------------------------- the Google ID token cache

\* auth_methods.CACHE_REFRESH_MARGIN (60 seconds), in instants of the clock
CACHE_REFRESH_MARGIN == 1

\* lifetime of an ID token in instants of the clock
TokenLife == 3

\* the token issued at instant c is named c; 0 is None.  The "exp" claim of
\* a token, which _update_cache reads from the verified claims
ExpOf(token) == token + TokenLife

\* what a call of the getter ended with; at is the instant of the validity
\* test for a cached token, of the return otherwise
NoOut == [kind |-> "none", token |-> 0, cached |-> FALSE, at |-> 0, aud |-> ""]

\* get_google_id_token(audience): the getter run by thread i closes over its
\* own audience
AudienceOf(i) == IF i % 2 = 1 THEN "aud1" ELSE "aud2"

\* the "aud" claim of a newly obtained token: user credentials carry the ID
\* token of the OAuth client, fetch_id_token asks for the audience given
AudClaim(path, audience) == IF path = "user" THEN "client" ELSE audience

\* faulty variant: a cached token counts only for the audience it was issued for
is_token_valid_keyed(c, instant, audience) ==
  instant < c.expires_at - CACHE_REFRESH_MARGIN /\ c.aud = audience

\* the second test of _is_token_valid, lines 55-57
is_token_valid(c, instant, audience) == instant < c.expires_at - CACHE_REFRESH_MARGIN

IdleThread ==
  [pc |-> "idle", runs |-> 0, seen_token |-> 0, seen_exp |-> 0, observed |-> FALSE,
   checked_at |-> 0, new_token |-> 0, new_aud |-> "", path |-> "", out |-> NoOut]

CacheInit ==
  /\ ClientInit
  /\ session = OwnSession
  /\ ident = NoIdent
  /\ cache = EmptyCache
  /\ clock = 1
  /\ threads = [i \in 1..MaxThreads |-> IdleThread]
  /\ tasks = <<>> /\ facade = <<>> /\ disk = <<>>

CacheFrame == UNCHANGED <<heap, tools, born, client_headers, last, envVars, ident, tasks, facade, disk>>

\* a thread calls the getter: get_google_id_token's _token_getter, or the
\* worker thread of aget_google_id_token (asyncio.to_thread)
Start(i) ==
  /\ threads[i].pc = "idle"
  /\ threads[i].runs < MaxRuns
  /\ threads' = [threads EXCEPT ![i] = [IdleThread EXCEPT !.pc = "read_token",
                                                       !.runs = threads[i].runs + 1]]
  /\ UNCHANGED <<cache, clock>>
  /\ CacheFrame

\* _is_token_valid, line 53: if not _token_cache["token"]: return False
ReadToken(i) ==
  /\ threads[i].pc = "read_token"
  /\ threads' = [threads EXCEPT ![i].seen_token = cache.token,
                                ![i].pc = IF cache.token = 0 THEN "refresh"
                                                             ELSE "read_expiry"]
  /\ UNCHANGED <<cache, clock>>
  /\ CacheFrame

\* _is_token_valid, lines 55-57: now < _token_cache["expires_at"] - margin
ReadExpiry(i) ==
  /\ threads[i].pc = "read_expiry"
  /\ threads' = [threads EXCEPT ![i].seen_exp = cache.expires_at,
                                ![i].observed = TRUE,
                                ![i].checked_at = clock,
                                ![i].pc = IF is_token_valid(cache, clock, AudienceOf(i))
                                            THEN "return_cached"
                                            ELSE "refresh"]
  /\ UNCHANGED <<cache, clock>>
  /\ CacheFrame

\* get_google_token_from_aud, line 94: return "Bearer " + _token_cache["token"];
\* the cache is read again, and str + None raises TypeError
ReturnCached(i) ==
  /\ threads[i].pc = "return_cached"
  /\ threads' = [threads EXCEPT ![i].pc = "idle",
                                ![i].out = IF cache.token = 0
                                             THEN [NoOut EXCEPT !.kind = "TypeError", !.at = clock]
                                             ELSE [kind |-> "token", token |-> cache.token,
                                                   cached |-> TRUE,
                                                   at |-> threads[i].checked_at,
                                                   aud |-> cache.aud]]
  /\ UNCHANGED <<cache, clock>>
  /\ CacheFrame

\* get_google_token_from_aud, lines 96-104 and 114-117, and the verification
\* of _update_cache, lines 74-78: the credentials yield a new token (by the
\* user-credential path or by the audience), which verifies or does not; or
\* no token can be had and the call raises with the cache untouched
Refresh(i) ==
  /\ threads[i].pc = "refresh"
  /\ \E path \in {"user", "audience"}, result \in {"verified", "rejected", "none"} :
       /\ result = "none" => path = "audience"
       /\ threads' = [threads EXCEPT
            ![i].path = path,
            ![i].new_token = IF result = "none" THEN 0 ELSE clock,
            ![i].new_aud = IF result = "none" THEN "" ELSE AudClaim(path, AudienceOf(i)),
            ![i].pc = CASE result = "verified" -> "write_token"
                        [] result = "rejected" -> "clear_token"
                        [] OTHER -> "idle",
            ![i].out = IF result = "none"
                         THEN [NoOut EXCEPT !.kind = "GoogleAuthError", !.at = clock]
                         ELSE NoOut]
  /\ UNCHANGED <<cache, clock>>
  /\ CacheFrame

\* _update_cache, line 80: _token_cache["token"] = new_token
WriteToken(i) ==
  /\ threads[i].pc = "write_token"
  /\ cache' = [cache EXCEPT !.token = threads[i].new_token, !.aud = threads[i].new_aud]
  /\ threads' = [threads EXCEPT ![i].pc = "write_expiry"]
  /\ UNCHANGED clock
  /\ CacheFrame

\* _update_cache, lines 81-83: _token_cache["expires_at"] = the "exp" claim
WriteExpiry(i) ==
  /\ threads[i].pc = "write_expiry"
  /\ cache' = [cache EXCEPT !.expires_at = ExpOf(threads[i].new_token)]
  /\ threads' = [threads EXCEPT ![i].pc = "return_new"]
  /\ UNCHANGED clock
  /\ CacheFrame

\* _update_cache, line 87: _token_cache["token"] = None
ClearToken(i) ==
  /\ threads[i].pc = "clear_token"
  /\ cache' = [cache EXCEPT !.token = 0, !.aud = ""]
  /\ threads' = [threads EXCEPT ![i].pc = "clear_expiry"]
  /\ UNCHANGED clock
  /\ CacheFrame

\* _update_cache, lines 88-89: expires_at = datetime.min; raise ValueError
ClearExpiry(i) ==
  /\ threads[i].pc = "clear_expiry"
  /\ cache' = [cache EXCEPT !.expires_at = 0]
  /\ threads' = [threads EXCEPT ![i].pc = "idle",
                                ![i].out = [NoOut EXCEPT !.kind = "ValueError", !.at = clock]]
  /\ UNCHANGED clock
  /\ CacheFrame

\* get_google_token_from_aud, line 106 (return "Bearer " + new_id_token) and
\* line 119 (return "Bearer " + _token_cache["token"], the cache read again)
ReturnNew(i) ==
  /\ threads[i].pc = "return_new"
  /\ LET token == IF threads[i].path = "user" THEN threads[i].new_token
                                               ELSE cache.token
         aud == IF threads[i].path = "user" THEN threads[i].new_aud ELSE cache.aud
     IN threads' = [threads EXCEPT ![i].pc = "idle",
                                   ![i].out = IF token = 0
                                                THEN [NoOut EXCEPT !.kind = "TypeError",
                                                                   !.at = clock]
                                                ELSE [kind |-> "token", token |-> token,
                                                      cached |-> FALSE, at |-> clock,
                                                      aud |-> aud]]
  /\ UNCHANGED <<cache, clock>>
  /\ CacheFrame

\* the wall clock advances
CacheTick ==
  /\ clock < MaxClock
  /\ clock' = clock + 1
  /\ UNCHANGED <<cache, threads>>
  /\ CacheFrame

\* the threads run with no lock between them: every statement that reads or
\* writes _token_cache is a step of its own
NextCache ==
  \/ \E i \in 1..MaxThreads : Start(i)
  \/ \E i \in 1..MaxThreads : ReadToken(i)
  \/ \E i \in 1..MaxThreads : ReadExpiry(i)
  \/ \E i \in 1..MaxThreads : ReturnCached(i)
  \/ \E i \in 1..MaxThreads : Refresh(i)
  \/ \E i \in 1..MaxThreads : WriteToken(i)
  \/ \E i \in 1..MaxThreads : WriteExpiry(i)
  \/ \E i \in 1..MaxThreads : ClearToken(i)
  \/ \E i \in 1..MaxThreads : ClearExpiry(i)
  \/ \E i \in 1..MaxThreads : ReturnNew(i)
  \/ CacheTick

SpecCache == CacheInit /\ [][NextCache]_vars

\* the operations of Spec and the client's add_headers
NextHeaders == Next \/ AddHeaders

SpecHeaders == Init /\ [][NextHeaders]_vars

\* ------------------------------------------------------------- properties

\* what a schema declares, read from the schema alone
DeclaredNames(schema) == ParamNames(schema.parameters)

AuthnNames(schema) ==
  {schema.parameters[i].name :
     i \in {j \in DOMAIN schema.parameters : schema.parameters[j].authSources # <<>>}}

\* a service that satisfies an authn-parameter or the authz requirement of the schema
SatisfiesSome(schema, s) ==
  \/ s \in Range(schema.authRequired)
  \/ \E i \in DOMAIN schema.parameters : s \in Range(schema.parameters[i].authSources)

\* the supplied names a tool built from the schema does not consume
NotConsumedAuth(schema, supplied) == {s \in supplied : ~SatisfiesSome(schema, s)}

NotConsumedBound(schema, supplied) ==
  {n \in supplied : n \notin DeclaredNames(schema) \ AuthnNames(schema)}

\* every tool of the manifest can be constructed from these inputs: no
\* supplied auth source collides with a client header and no parameter left
\* in the signature has an unsupported type
Constructible(schema, getters, bound) ==
  /\ \A s \in getters : get_auth_header(s) \notin Keys(heap[client_headers])
  /\ \A i \in DOMAIN schema.parameters :
       LET q == schema.parameters[i]
       IN get_type_ok(q) \/ q.authSources # <<>> \/ q.name \in bound

Outstanding(t) == Keys(heap[t.authn]) # {} \/ t.authz # <<>>

\* A step that does not leave a Live state changes nothing but `last`
\* (this is what makes such steps leaves of the exploration).
Frame ==
  [][(~Live') => UNCHANGED <<heap, tools, born, client_headers>>]_vars

\* C1: an invocation of a tool with an outstanding authn-parameter or authz
\* requirement raises PermissionError before argument binding and validation,
\* before any provider is resolved and without a request, whatever loads and
\* derivations the tool came from.
C1_AuthGateFirst ==
  (last.op = "call" /\ Outstanding(tools[last.recv])) =>
    /\ last.err = "PermissionError"
    /\ last.trace = <<>>
    /\ last.resolved = {}
    /\ last.request = <<>>

\* C1 witness: a derived tool with an outstanding requirement was invoked with
\* arguments its signature rejects, and the gate answered first
C1_Witness ==
  /\ last.op = "call"
  /\ born[last.recv].op = "bind_params"
  /\ Outstanding(tools[last.recv])
  /\ ~signature_binds(tools[last.recv].params, last.args, last.kwargs)
  /\ last.err = "PermissionError"

\* the manifest a load was answered with
Fetched == IF last.op = "load_tool" THEN <<Entry(last.name)>> ELSE ToolsetOf(last.name)

\* the supplied names that tool i of the fetched manifest does not consume
NotConsumedBy(i) ==
  NotConsumedAuth(Fetched[i].schema, last.getters)
    \cup NotConsumedBound(Fetched[i].schema, last.bound)

AllConstructible ==
  \A i \in DOMAIN Fetched : Constructible(Fetched[i].schema, last.getters, last.bound)

\* C2 (the claim as stated, for a fetched manifest that holds a tool and whose
\* tools can all be constructed): load_toolset with strict=True raises
\* ValueError exactly when some tool of the manifest fails to consume some
\* supplied getter or bound parameter, and otherwise returns one tool per
\* manifest entry.  The code violates it.
C2_StrictExactly ==
  (/\ last.op = "load_toolset" /\ last.strict /\ last.resp = "ok"
   /\ Fetched # <<>> /\ AllConstructible) =>
    /\ (last.err = "ValueError") <=> (\E i \in DOMAIN Fetched : NotConsumedBy(i) # {})
    /\ (\A i \in DOMAIN Fetched : NotConsumedBy(i) = {}) =>
         (last.ok /\ Len(last.made) = Len(Fetched))

\* C3 (the claim as stated): load_toolset with strict=False returns one tool
\* per manifest entry if and only if every supplied name is consumed by at
\* least one tool of the manifest, and otherwise raises ValueError naming
\* every supplied name no tool consumed.  Read here for manifests whose
\* parameter types are all supported; violated all the same: a supplied
\* getter an existing client header collides with fails the load although a
\* tool consumes it.
C3_NonStrictIff ==
  (/\ last.op = "load_toolset" /\ ~last.strict /\ last.resp = "ok"
   /\ \A i \in DOMAIN Fetched : \A j \in DOMAIN Fetched[i].schema.parameters :
        get_type_ok(Fetched[i].schema.parameters[j])) =>
    LET unconsumed ==
          {x \in last.getters \cup last.bound : \A i \in DOMAIN Fetched : x \in NotConsumedBy(i)}
    IN /\ (last.ok /\ Len(last.made) = Len(Fetched)) <=> (unconsumed = {})
       /\ unconsumed # {} =>
            /\ last.err = "ValueError"
            /\ last.names_auth \cup last.names_bound = unconsumed
            /\ last.made = <<>>

\* C3 amended: non-strict load_toolset returns one tool per manifest entry if
\* and only if every tool of the manifest can be constructed and every
\* supplied name is consumed by at least one tool; when all can be
\* constructed and some name is consumed by none it raises ValueError naming
\* every such name; every failing load returns no tool.
C3_NonStrictAmended ==
  (last.op = "load_toolset" /\ ~last.strict /\ last.resp = "ok") =>
    LET unconsumed ==
          {x \in last.getters \cup last.bound : \A i \in DOMAIN Fetched : x \in NotConsumedBy(i)}
    IN /\ last.ok <=> (AllConstructible /\ unconsumed = {})
       /\ last.ok =>
            /\ Len(last.made) = Len(Fetched)
            /\ \A i \in DOMAIN Fetched : tools[last.made[i]].name = Fetched[i].name
       /\ ~last.ok => last.made = <<>>
       /\ (AllConstructible /\ unconsumed # {}) =>
            /\ last.err = "ValueError" /\ last.reason = "unused_by_any"
            /\ last.names_auth = unconsumed \cap last.getters
            /\ last.names_bound = unconsumed \cap last.bound

\* C3 witness: a name consumed by the second tool only, and the load succeeded
C3_Witness ==
  /\ last.op = "load_toolset" /\ ~last.strict /\ last.ok
  /\ Len(last.made) = 2
  /\ \E x \in last.getters : x \in NotConsumedBy(1) /\ x \notin NotConsumedBy(2)

\* C4: once the tool is found in the manifest and built, load_tool raises
\* ValueError if and only if some supplied getter or bound-parameter name is
\* not used by the tool, the error names every such name, and otherwise the
\* tool is returned.
C4_LoadToolUnused ==
  (last.op = "load_tool" /\ last.resp = "ok" /\ AllConstructible) =>
    /\ (last.err = "ValueError") <=> (NotConsumedBy(1) # {})
    /\ last.err = "ValueError" =>
         /\ last.names_auth = NotConsumedAuth(Fetched[1].schema, last.getters)
         /\ last.names_bound = NotConsumedBound(Fetched[1].schema, last.bound)
         /\ last.made = <<>>
    /\ last.err # "ValueError" =>
         /\ last.ok /\ Len(last.made) = 1
         /\ tools[last.made[1]].name = last.name

\* C4 witness: two unused getters and an unused bound name, all three reported
C4_Witness ==
  /\ last.op = "load_tool" /\ last.err = "ValueError" /\ last.reason = "unused"
  /\ Cardinality(last.names_auth) = 2
  /\ last.names_bound # {}

\* C5: in every tool, no parameter name is in more than one of the residual
\* parameter list, the bound-parameter map and the outstanding authn map.
C5_Disjoint ==
  \A i \in DOMAIN tools :
    LET v == View(heap, tools[i])
    IN /\ ParamNames(v.params) \cap Keys(v.bound) = {}
       /\ ParamNames(v.params) \cap Keys(v.authn) = {}
       /\ Keys(v.bound) \cap Keys(v.authn) = {}

\* C5 witness: a tool derived by bind_params with a residual, a bound and an
\* outstanding authn parameter
C5_Witness ==
  \E i \in DOMAIN tools :
    /\ born[i].op = "bind_params"
    /\ tools[i].params # <<>>
    /\ Keys(heap[tools[i].bound]) # {}
    /\ Keys(heap[tools[i].authn]) # {}

\* the operation that returned the loaded tool a tool descends from
RECURSIVE RootOp(_)
RootOp(i) == IF born[i].from = 0 THEN born[i].op ELSE RootOp(born[i].from)

\* the tools one load returned together (a run loads once)
Loaded == {j \in DOMAIN tools : born[j].from = 0}

\* C6 (the claim as stated): in every tool returned by load_tool, load_toolset
\* or add_auth_token_getters, each name of the token-getter map satisfies an
\* authn-parameter or authz requirement of that tool's own schema, and each
\* name of the bound-parameter map is a parameter its schema declares.
\* Violated: a non-strict load_toolset hands every tool all supplied getters.
C6_GettersOwnTool ==
  \A i \in DOMAIN tools :
    born[i].op \in {"load_tool", "load_toolset", "add_auth_token_getters"} =>
      /\ \A s \in Keys(heap[tools[i].getters]) : SatisfiesSome(SchemaOf(tools[i].name), s)
      /\ Keys(heap[tools[i].bound]) \subseteq DeclaredNames(SchemaOf(tools[i].name))

\* C6 amended: each name of a tool's token-getter map satisfies a requirement
\* of that tool's schema or, when the tool comes from a load_toolset, of the
\* schema of some tool of the same toolset; each name of its bound-parameter
\* map is a parameter its schema declares.
C6_GettersAmended ==
  \A i \in DOMAIN tools :
    /\ \A s \in Keys(heap[tools[i].getters]) :
         \/ SatisfiesSome(SchemaOf(tools[i].name), s)
         \/ /\ RootOp(i) = "load_toolset"
            /\ \E j \in Loaded : SatisfiesSome(SchemaOf(tools[j].name), s)
    /\ Keys(heap[tools[i].bound]) \subseteq DeclaredNames(SchemaOf(tools[i].name))

\* C6 witness: add_auth_token_getters returned a tool that came from a
\* toolset and holds a getter only another tool of the toolset consumes
C6_Witness ==
  \E i \in DOMAIN tools :
    /\ born[i].op = "add_auth_token_getters"
    /\ RootOp(i) = "load_toolset"
    /\ \E s \in Keys(heap[tools[i].getters]) : ~SatisfiesSome(SchemaOf(tools[i].name), s)
    /\ \E s \in Keys(heap[tools[i].getters]) : SatisfiesSome(SchemaOf(tools[i].name), s)

\* C7: no operation changes a tool that exists: bind_params and
\* add_auth_token_getters, raising or not, leave the receiver (and every other
\* tool) with the same parameters, bound map, requirements, getters and
\* headers; on success the result is a new, distinct tool.
C7_CopyOnWrite ==
  [][/\ \A i \in DOMAIN tools :
          /\ i \in DOMAIN tools'
          /\ View(heap', tools'[i]) = View(heap, tools[i])
     /\ (last'.op \in {"bind_params", "add_auth_token_getters"} /\ last'.ok) =>
          /\ Len(tools') = Len(tools) + 1
          /\ last'.made = <<Len(tools')>>
          /\ last'.recv \in DOMAIN tools]_vars

\* C7 witness: the original was derived from again after a first derivation
C7_Witness ==
  /\ Len(tools) = 3
  /\ born[2].op = "bind_params" /\ born[2].from = 1
  /\ born[3].op = "bind_params" /\ born[3].from = 1
  /\ View(heap, tools[2]) # View(heap, tools[3])

\* C8 (the claim as stated): bind_params raises ValueError naming the
\* parameter whenever a supplied name is already bound or is not a parameter
\* the tool declares, and otherwise returns a tool in which exactly the
\* supplied names moved from the residual list to the bound map.  Violated: a
\* declared parameter with authentication sources cannot be bound.
C8_BindDeclared ==
  last.op = "bind_params" =>
    LET t == tools[last.recv]
        supplied == Range(last.bound)
        bad == {n \in supplied : n \in Keys(heap[t.bound])
                                   \/ n \notin DeclaredNames(SchemaOf(t.name))}
    IN /\ bad # {} => (last.err = "ValueError" /\ last.culprit \in bad /\ last.made = <<>>)
       /\ bad = {} =>
            /\ last.ok /\ Len(last.made) = 1
            /\ ParamNames(tools[last.made[1]].params) = ParamNames(t.params) \ supplied
            /\ Keys(heap[tools[last.made[1]].bound]) = Keys(heap[t.bound]) \cup supplied

\* C8 amended: bind_params raises ValueError naming the first supplied name
\* that is already bound or is not in the tool's residual parameter list
\* (an undeclared name, or a declared parameter with authentication sources),
\* producing no tool and changing nothing; otherwise it returns a tool in
\* which exactly the supplied names moved from the residual list to the bound
\* map, everything else as in the receiver.
C8_BindResidual ==
  [][last'.op = "bind_params" =>
       LET t == tools[last'.recv]
           names == last'.bound
           bad == {k \in DOMAIN names : names[k] \in Keys(heap[t.bound])
                                          \/ names[k] \notin ParamNames(t.params)}
       IN /\ bad # {} =>
               /\ last'.err = "ValueError"
               /\ last'.culprit = names[CHOOSE k \in bad : \A l \in bad : k <= l]
               /\ last'.made = <<>>
               /\ UNCHANGED <<heap, tools>>
          /\ bad = {} =>
               /\ last'.ok /\ Len(last'.made) = 1
               /\ LET old == View(heap, t)
                      new == View(heap', tools'[last'.made[1]])
                  IN /\ new.params = SelectSeq(old.params, LAMBDA q : q.name \notin Range(names))
                     /\ Keys(new.bound) = Keys(old.bound) \cup Range(names)
                     /\ \A n \in Keys(old.bound) : new.bound[n] = old.bound[n]
                     /\ new.authn = old.authn /\ new.authz = old.authz
                     /\ new.getters = old.getters /\ new.headers = old.headers]_vars

\* C8 witness: a name was bound on a tool that had a bound parameter and an
\* authn parameter already
C8_Witness ==
  /\ last.op = "bind_params" /\ last.ok
  /\ Keys(heap[tools[last.recv].bound]) # {}
  /\ Keys(heap[tools[last.recv].authn]) # {}

\* C9: add_auth_token_getters raises ValueError and changes nothing whenever
\* a supplied auth source is already in the receiver's token-getter map.
C9_NoReRegister ==
  [][(/\ last'.op = "add_auth_token_getters"
      /\ last'.getters \cap Keys(heap[tools[last'.recv].getters]) # {}) =>
       /\ last'.err = "ValueError"
       /\ last'.made = <<>>
       /\ UNCHANGED <<heap, tools>>]_vars

\* C9 witness: the source re-registered had been registered by an earlier
\* add_auth_token_getters call
C9_Witness ==
  /\ last.op = "add_auth_token_getters" /\ last.reason = "already_registered"
  /\ born[last.recv].op = "add_auth_token_getters"
  /\ last.names_auth \cap Keys(heap[tools[born[last.recv].from].getters]) = {}

\* C10: add_auth_token_getters raises ValueError if a supplied source
\* satisfies none of the receiver's outstanding requirements; when it
\* succeeds the new tool's outstanding requirements are the receiver's minus
\* those the supplied sources satisfy, and its getter map is the receiver's
\* plus the supplied sources.
C10_AddAuthConsumes ==
  last.op = "add_auth_token_getters" =>
    LET old == View(heap, tools[last.recv])
        satisfied == {q \in Keys(old.authn) : Range(old.authn[q]) \cap last.getters # {}}
        useless == {s \in last.getters :
                      /\ \A q \in Keys(old.authn) : s \notin Range(old.authn[q])
                      /\ s \notin Range(old.authz)}
    IN /\ useless # {} => (last.err = "ValueError" /\ last.made = <<>>)
       /\ last.ok =>
            /\ Len(last.made) = 1
            /\ LET new == View(heap, tools[last.made[1]])
               IN /\ new.authn = Restrict(old.authn, Keys(old.authn) \ satisfied)
                  /\ new.authz = IF Range(old.authz) \cap last.getters # {}
                                   THEN <<>> ELSE old.authz
                  /\ Keys(new.getters) = Keys(old.getters) \cup last.getters
                  /\ \A s \in Keys(old.getters) : new.getters[s] = old.getters[s]
                  /\ \A s \in last.getters : new.getters[s] = Getter(s)

\* C10 witness: a source was added to a tool that already held one, and it
\* satisfied an outstanding requirement
C10_Witness ==
  /\ last.op = "add_auth_token_getters" /\ last.ok
  /\ last.getters # {}
  /\ Keys(heap[tools[last.recv].getters]) # {}
  /\ Outstanding(tools[last.recv])
  /\ ~Outstanding(tools[last.made[1]])

\* the header names the auth sources S are sent under
AuthHeaders(S) == {get_auth_header(x) : x \in S}

\* C11: in every tool that exists, whatever loads, derivations and add_headers
\* calls came before, no registered auth source X has X_token among that
\* tool's client headers; a load or an add_auth_token_getters whose sources
\* would collide with the headers the tool gets raises ValueError and
\* produces no tool.
C11_NoHeaderCollision ==
  /\ \A i \in DOMAIN tools :
       AuthHeaders(Keys(heap[tools[i].getters])) \cap Keys(heap[tools[i].headers]) = {}
  /\ (/\ last.op \in {"load_tool", "load_toolset"} /\ last.resp = "ok"
      /\ Fetched # <<>>
      /\ AuthHeaders(last.getters) \cap Keys(heap[client_headers]) # {}) =>
       (last.err = "ValueError" /\ last.made = <<>>)
  /\ (/\ last.op = "add_auth_token_getters"
      /\ AuthHeaders(last.getters) \cap Keys(heap[tools[last.recv].headers]) # {}) =>
       (last.err = "ValueError" /\ last.made = <<>>)

\* C11 witness: the client gained header a_token after a tool was loaded,
\* and source a was then registered on that tool, whose headers are the ones
\* it was loaded with
C11_Witness ==
  /\ last.op = "add_auth_token_getters" /\ last.ok
  /\ "a" \in last.getters
  /\ "a_token" \in Keys(heap[client_headers])
  /\ tools[last.made[1]].headers # client_headers
  /\ "a_token" \notin Keys(heap[tools[last.made[1]].headers])

\* C12: identify_auth_requirements returns (A, Z, U): A holds exactly the
\* parameters none of whose alternatives is available, each with its list as
\* given (a parameter with no alternatives stays); Z is empty if an authz
\* service is available and the given list otherwise; U is the union of the
\* matches, a subset of the available names; the arguments are not modified.
C12_Identify ==
  ident.applied =>
    LET g == ident.given
        matched(p) == Range(g.authn[p]) \cap g.available
        authz_matched == Range(g.authz) \cap g.available
    IN /\ Keys(ident.out.authn) = {p \in Keys(g.authn) : matched(p) = {}}
       /\ \A p \in Keys(ident.out.authn) : ident.out.authn[p] = g.authn[p]
       /\ \A p \in Keys(g.authn) : g.authn[p] = <<>> => p \in Keys(ident.out.authn)
       /\ ident.out.authz = IF authz_matched # {} THEN <<>> ELSE g.authz
       /\ ident.out.used = UNION {matched(p) : p \in Keys(g.authn)} \cup authz_matched
       /\ ident.out.used \subseteq g.available
       /\ ident.authn = g.authn /\ ident.authz = g.authz /\ ident.available = g.available

\* C12 witness: one parameter without alternatives, one covered by an
\* available service, an authz list of two of which one is available, and an
\* available service that matches nothing
C12_Witness ==
  /\ ident.applied
  /\ \E p \in Keys(ident.given.authn) : ident.given.authn[p] = <<>>
  /\ \E p \in Keys(ident.given.authn) : p \notin Keys(ident.out.authn)
  /\ Len(ident.given.authz) = 2 /\ ident.given.authz[1] # ident.given.authz[2]
  /\ ident.given.authz[1] \notin ident.given.available
  /\ ident.out.authz = <<>>
  /\ ident.out.used # ident.given.available

C14_Headers ==
  (last.op = "call" /\ last.request # <<>>) =>
    LET t == tools[last.recv]
        sent == last.request[1].headers
        mine == heap[t.headers]
        getters == heap[t.getters]
    IN /\ Keys(sent) = Keys(mine) \cup AuthHeaders(Keys(getters))
       /\ \A x \in Keys(getters) :
            sent[get_auth_header(x)] = [type |-> "resolved", val |-> getters[x], at |-> now]
       /\ \A n \in Keys(mine) \ AuthHeaders(Keys(getters)) :
            sent[n] = [type |-> "resolved", val |-> mine[n], at |-> now]

\* C14 witness: a request of a tool that has source a registered and, since
\* the caller wrote to a dict it had passed in, a client header a_token too
C14_Witness ==
  /\ last.op = "call" /\ last.request # <<>>
  /\ "a" \in Keys(heap[tools[last.recv].getters])
  /\ "a_token" \in Keys(heap[tools[last.recv].headers])

\* C15: an invocation issues at most one request; one that passes the auth
\* gate and the argument checks and whose providers all resolve issues
\* exactly one POST to /api/tool/{name}/invoke; a transport failure and a
\* non-success response are raised with nothing sent again, the error
\* carrying the body's 'error' field or else the unexpected-status message;
\* a success returns the body's 'result' field or else the whole body.
C15_OneRequest ==
  last.op = "call" =>
    LET t == tools[last.recv]
        passes == /\ ~Outstanding(t)
                  /\ signature_binds(t.params, last.args, last.kwargs)
                  /\ model_validates(t.params, bound_arguments(t.params, last.args, last.kwargs))
                  /\ last.reason # "provider"
    IN /\ Len(last.request) <= 1
       /\ passes <=> Len(last.request) = 1
       /\ passes =>
            /\ last.request[1].path = "/api/tool/" \o t.name \o "/invoke"
            /\ last.resp = "transport" => (~last.ok /\ last.returned = <<>>)
            /\ last.resp = "error" =>
                 (~last.ok /\ last.message = <<"denied">> /\ last.returned = <<>>)
            /\ last.resp = "status" =>
                 (~last.ok /\ last.message = <<"unexpected status from server">>
                  /\ last.returned = <<>>)
            /\ last.resp = "result" => (last.ok /\ last.returned = <<"rows">>)
            /\ last.resp = "body" => (last.ok /\ last.returned = <<[rows |-> "rows"]>>)

\* C15 witness: the server refused a request that carried a bound value and
\* a token, with a body that has no 'error' field
C15_Witness ==
  /\ last.op = "call" /\ last.resp = "status"
  /\ Len(last.request) = 1
  /\ Keys(heap[tools[last.recv].bound]) # {}
  /\ Keys(heap[tools[last.recv].getters]) # {}

\* the argument errors of an invocation of tool t, read from its residual
\* parameter list: the names the positional arguments fill are the first of
\* the required-then-optional order
PositionalNames(t, args) ==
  {ordered_params(t.params)[k].name : k \in DOMAIN args \cap DOMAIN t.params}

TooManyPositional(t, args) == Len(args) > Len(t.params)

UnknownName(t, kwargs) == \E n \in Keys(kwargs) : n \notin ParamNames(t.params)

MissingRequired(t, args, kwargs) ==
  \E k \in DOMAIN t.params :
    /\ t.params[k].required
    /\ t.params[k].name \notin PositionalNames(t, args) \cup Keys(kwargs)

\* the values supplied for declared parameters, by keyword
KeywordValues(t, kwargs) ==
  {<<t.params[k], kwargs[t.params[k].name]>> :
     k \in {j \in DOMAIN t.params : t.params[j].name \in Keys(kwargs)}}

C17_CloseOnce ==
  /\ session.managed => /\ session.closes = (IF session.calls > 0 THEN 1 ELSE 0)
                        /\ session.closed <=> session.calls > 0
  /\ ~session.managed => session.closes = 0

\* C17 witness: close() was called twice on a client with its own session,
\* with a tool loaded and invoked in between
C17_Witness ==
  /\ session.managed /\ session.calls = 2 /\ session.closes = 1
  /\ tools # <<>>

C19_CacheAtomic ==
  \A i \in DOMAIN threads :
    /\ threads[i].observed => threads[i].seen_exp = ExpOf(threads[i].seen_token)
    /\ threads[i].out.kind # "TypeError"
    /\ (threads[i].out.kind = "token" /\ threads[i].out.cached) =>
         threads[i].out.at < ExpOf(threads[i].out.token) - CACHE_REFRESH_MARGIN

\* C19, the reader's pair alone
C19_PairBelongsTogether ==
  \A i \in DOMAIN threads :
    threads[i].observed => threads[i].seen_exp = ExpOf(threads[i].seen_token)

\* C19, the returned value alone: never the failure of "Bearer " + None
C19_ReturnsAToken ==
  \A i \in DOMAIN threads : threads[i].out.kind # "TypeError"

\* C19, the returned cached token alone: valid with the margin when tested
C19_ReturnsValid ==
  \A i \in DOMAIN threads :
    (threads[i].out.kind = "token" /\ threads[i].out.cached) =>
      threads[i].out.at < ExpOf(threads[i].out.token) - CACHE_REFRESH_MARGIN

\* C20: once tools have been returned, no write of the caller to an object
\* it holds - the mappings it passed to the client and to the loads, the
\* lists it reaches through a tool's accessors - changes what any tool holds.
C20_NoExternalMutation ==
  [][last'.op = "mutate" =>
       \A i \in DOMAIN tools : View(heap', tools'[i]) = View(heap, tools[i])]_vars

\* C20, by kind of object: the caller's client_headers mapping
C20_ClientHeadersIsolated ==
  [][(last'.op = "mutate" /\ last'.name = "client_headers") =>
       \A i \in DOMAIN tools : heap'[tools[i].headers] = heap[tools[i].headers]]_vars

\* C20, by kind of object: the caller's auth_token_getters mapping
C20_GettersIsolated ==
  [][(last'.op = "mutate" /\ last'.name = "auth_token_getters") =>
       \A i \in DOMAIN tools : heap'[tools[i].getters] = heap[tools[i].getters]]_vars

\* C20, by kind of object: the lists inside _required_authn_params
C20_AuthnListsIsolated ==
  [][(last'.op = "mutate" /\ last'.name = "authn_list") =>
       \A i \in DOMAIN tools :
         View(heap', tools[i]).authn = View(heap, tools[i]).authn]_vars

\* what happened outside the invocation that ended as l
EnvOf(l) ==
  IF l.reason = "provider" THEN "provider"
  ELSE IF l.resp = "none" THEN "result"
  ELSE l.resp

\* C21: a step of an invocation leaves every tool as it was, and an
\* invocation that ends while others of the same tool are in flight ends as
\* it would have alone: its request, result and error are those of one
\* uninterrupted __call__ with its own arguments, resolved at its own instant.
C21_InvocationIsolated ==
  [][(tasks' # tasks \/ last'.op = "call") =>
       /\ tools' = tools
       /\ \A i \in DOMAIN tools : View(heap', tools[i]) = View(heap, tools[i])
       /\ \A k \in DOMAIN tasks :
            (tasks' = Remaining(k) /\ last'.op = "call" /\ last'.args = tasks[k].args
               /\ last'.kwargs = tasks[k].kwargs) =>
              LET at == IF tasks[k].pc = "post" THEN tasks[k].at ELSE now
                  solo == call(heap, tools[tasks[k].tool], tasks[k].args, tasks[k].kwargs,
                               Env(EnvOf(last'), at, session.closed))
              IN /\ last'.request = solo.request
                 /\ last'.returned = solo.returned
                 /\ last'.message = solo.message
                 /\ last'.trace = solo.trace
                 /\ last'.resolved = solo.resolved
                 /\ last'.ok = solo.fail.ok
                 /\ last'.err = solo.fail.err]_vars

\* C21 witness: an invocation with bound values returned its result, resolved
\* at the first instant, while another invocation of the same tool with other
\* arguments, begun before it ended, is still in flight at a later instant
C21_Witness ==
  /\ last.op = "call" /\ last.ok /\ last.returned # <<>>
  /\ "resolve_bound" \in {r[1] : r \in last.resolved}
  /\ tasks # <<>>
  /\ tasks[1].tool = last.recv
  /\ tasks[1].args # last.args
  /\ tasks[1].pc = "post"
  /\ now = 2 /\ tasks[1].at = 1

\* C22: one background loop and thread for the process.  At most one loop
\* is ever started, whichever threads construct sync clients, and every
\* coroutine of the facade - the creation of a client, a load, an invocation -
\* ran on that loop.
C22_SingleLoop ==
  /\ facade.started <= 1
  /\ \A c \in DOMAIN facade.callers : \A r \in facade.callers[c].ran : r[2] = 1

\* C22, the count of loops alone
C22_OneLoopStarted == facade.started <= 1

\* C22, marshalling alone: the loads and invocations of a thread run on the
\* loop its client was created on
C22_CallsOnClientLoop ==
  \A c \in DOMAIN facade.callers : \A r \in facade.callers[c].ran :
    r[2] = facade.callers[c].client

\* the tools of the fetched manifest that leave a supplied name unconsumed
NotConsuming == {i \in DOMAIN Fetched : NotConsumedBy(i) # {}}

\* the first of them in manifest order
FirstNotConsuming == CHOOSE i \in NotConsuming : \A j \in NotConsuming : i <= j

\* C23 as stated: strict load_toolset over a manifest with a tool that does
\* not consume a supplied name raises the "unused" ValueError naming the
\* first such tool, with the names it left unused, and returns no tool.
C23_StrictFirstTool ==
  (/\ last.op = "load_toolset" /\ last.strict /\ last.resp = "ok"
   /\ NotConsuming # {}) =>
    /\ last.err = "ValueError" /\ last.reason = "unused"
    /\ last.culprit = Fetched[FirstNotConsuming].name
    /\ last.names_auth \cup last.names_bound = NotConsumedBy(FirstNotConsuming)
    /\ last.made = <<>>

\* C23 amended: the same when every tool of the manifest up to and including
\* the first one that does not consume can be constructed; if one of them
\* cannot, the load raises that tool's construction error instead.  No strict
\* load over such a manifest returns a tool.
C23_StrictFirstConstructible ==
  (/\ last.op = "load_toolset" /\ last.strict /\ last.resp = "ok"
   /\ NotConsuming # {}) =>
    LET upto == {i \in DOMAIN Fetched : i <= FirstNotConsuming}
        constructible == \A i \in upto :
                           Constructible(Fetched[i].schema, last.getters, last.bound)
    IN /\ ~last.ok /\ last.made = <<>>
       /\ constructible =>
            /\ last.err = "ValueError" /\ last.reason = "unused"
            /\ last.culprit = Fetched[FirstNotConsuming].name
            /\ last.names_auth = NotConsumedBy(FirstNotConsuming) \cap last.getters
            /\ last.names_bound = NotConsumedBy(FirstNotConsuming) \cap last.bound
       /\ ~constructible => last.reason \in {"header_conflict", "unsupported_type"}

\* C23 witness: the second tool of the manifest is the first that does not
\* consume; the first was built, and the load failed naming the second
C23_Witness ==
  /\ last.op = "load_toolset" /\ last.strict /\ last.resp = "ok"
  /\ NotConsuming # {} /\ FirstNotConsuming = 2
  /\ last.reason = "unused" /\ last.culprit = Fetched[2].name
  /\ last.made = <<>>

\* C24 as stated: at load time a supplied bound-parameter name that the
\* tool's schema declares is consumed, whatever else the schema declares for
\* the parameter: it is in the tool's bound-parameter map and is not reported
\* as unused.
C24_DeclaredIsConsumed ==
  (last.op = "load_tool" /\ last.resp = "ok" /\ AllConstructible) =>
    LET declared == DeclaredNames(SchemaOf(last.name))
    IN /\ last.names_bound \cap declared = {}
       /\ last.ok => last.bound \cap declared \subseteq Keys(heap[tools[last.made[1]].bound])

\* C24 amended: a supplied bound-parameter name is consumed exactly when the
\* schema declares the parameter without authentication sources.  The tool's
\* bound-parameter map holds those names and no other, and the load reports
\* every other supplied name - undeclared, or declared with authentication
\* sources - as an unused bound parameter.
C24_ConsumedUnlessAuthn ==
  /\ (last.op = "load_tool" /\ last.resp = "ok" /\ AllConstructible) =>
       LET schema == SchemaOf(last.name)
           consumable == DeclaredNames(schema) \ AuthnNames(schema)
       IN /\ last.ok \/ last.reason = "unused"
          /\ last.names_bound = last.bound \ consumable
          /\ last.ok => Keys(heap[tools[last.made[1]].bound]) = last.bound
  /\ (last.op = "load_toolset" /\ last.ok) =>
       \A i \in DOMAIN last.made :
         Keys(heap[tools[last.made[i]].bound]) =
           last.bound \cap (DeclaredNames(Fetched[i].schema) \ AuthnNames(Fetched[i].schema))

\* C24 witness: a binding for the authn-gated parameter uid, supplied together
\* with a binding the tool consumes, fails the load as unused
C24_Witness ==
  /\ last.op = "load_tool" /\ last.name = "user" /\ last.resp = "ok"
  /\ last.bound = {"uid", "city"}
  /\ last.reason = "unused" /\ last.names_bound = {"uid"}

\* the fetched manifest has a parameter of an unsupported type
MalformedSchema ==
  \E i \in DOMAIN Fetched : \E j \in DOMAIN Fetched[i].schema.parameters :
    ~get_type_ok(Fetched[i].schema.parameters[j])

\* C25: a load answered with a schema that has a parameter of an unsupported
\* type raises and returns no tool, wherever that parameter ends up (free,
\* bound by the caller, authentication-gated).
C25_SchemaErrorFatal ==
  (last.op \in {"load_tool", "load_toolset"} /\ last.resp = "ok" /\ MalformedSchema) =>
    ~last.ok /\ last.made = <<>>

\* C26: a run of load_task that was not cancelled leaves, for every file of
\* the task that existed before it, a backup that holds what the file held;
\* a file is never overwritten by its download before that backup exists;
\* a cancelled run makes no backup and downloads nothing.
C26_BackupsKept ==
  /\ (disk.pc = "done" /\ disk.returned # "cancelled") =>
       \A f \in DOMAIN disk.before :
         disk.before[f] # Absent =>
           \E b \in DOMAIN disk.backups : disk.backups[b] = disk.before[f]
  /\ disk.returned = "cancelled" =>
       disk.backups = <<>> /\ disk.files = disk.before

\* C26, the cancelled run alone
C26_CancelTouchesNothing ==
  disk.returned = "cancelled" => disk.backups = <<>> /\ disk.files = disk.before

\* C26, a run whose files have basenames of their own
C26_BackupsKeptDistinctNames ==
  (disk.pc = "done" /\ disk.returned # "cancelled" /\ disk.task = "setup") =>
    \A f \in DOMAIN disk.before :
      disk.before[f] # Absent =>
        \E b \in DOMAIN disk.backups : disk.backups[b] = disk.before[f]

\* the getters of the tool cover every authentication requirement of its schema
Covered(t) ==
  LET schema == SchemaOf(t.name)
      have == Keys(heap[t.getters])
  IN /\ \A j \in DOMAIN schema.parameters :
          schema.parameters[j].authSources # <<>> =>
            Range(schema.parameters[j].authSources) \cap have # {}
     /\ schema.authRequired # <<>> => Range(schema.authRequired) \cap have # {}

\* the derived tool t has no more to satisfy than the tool s it came from,
\* and every binding and getter of s
Inherits(t, s) ==
  /\ Keys(heap[t.authn]) \subseteq Keys(heap[s.authn])
  /\ Range(t.authz) \subseteq Range(s.authz)
  /\ \A n \in Keys(heap[s.bound]) :
       n \in Keys(heap[t.bound]) /\ heap[t.bound][n] = heap[s.bound][n]
  /\ \A x \in Keys(heap[s.getters]) :
       x \in Keys(heap[t.getters]) /\ heap[t.getters][x] = heap[s.getters][x]

\* C27: a tool with no outstanding requirement holds a getter for one of the
\* sources of every authn parameter of its schema and, if the schema requires
\* authorization, for one of the required services; a derived tool has no
\* requirement its origin did not have and keeps its origin's bindings and
\* getters.
C27_GateSound ==
  /\ \A i \in DOMAIN tools : ~Outstanding(tools[i]) => Covered(tools[i])
  /\ \A j \in DOMAIN tools :
       born[j].from # 0 => Inherits(tools[j], tools[born[j].from])

\* C27 witness: a tool with an authn parameter and an authorization
\* requirement, loaded with neither satisfied, had them satisfied one after
\* the other by two add_auth_token_getters calls
C27_Witness ==
  \E j \in DOMAIN tools :
    /\ tools[j].name = "both"
    /\ born[j].op = "add_auth_token_getters"
    /\ born[j].from # 0 /\ born[born[j].from].op = "add_auth_token_getters"
    /\ ~Outstanding(tools[j])
    /\ Outstanding(tools[born[j].from])

C29_ErrorOrToken ==
  /\ \A i \in DOMAIN threads :
       /\ threads[i].out.kind \in {"none", "GoogleAuthError", "ValueError", "token"}
       /\ threads[i].out.kind = "token" => threads[i].out.token # 0
  /\ \A i \in DOMAIN threads :
       \/ threads[i].pc = "return_cached"
       \/ threads[i].pc = "return_new" /\ threads[i].path = "audience"
       => cache.token # 0

\* C29, the case of line 94 alone: a call that found the cache valid does not
\* end in TypeError
C29_CachedReadNotCleared ==
  \A i \in DOMAIN threads :
    threads[i].out.kind = "TypeError" => ~threads[i].observed \/ threads[i].path # ""

\* C29, the case of line 119 alone: a call that has just updated the cache
\* does not end in TypeError
C29_OwnUpdateNotCleared ==
  \A i \in DOMAIN threads :
    threads[i].out.kind = "TypeError" => threads[i].path # "audience"

\* the outstanding requirements of a tool, each as the set of services
\* that satisfy it
Requirements(t) ==
  {Range(View(heap, t).authn[q]) : q \in Keys(heap[t.authn])}
    \cup (IF t.authz # <<>> THEN {Range(t.authz)} ELSE {})

\* the requirements a schema starts with
SchemaRequirements(schema) ==
  {Range(schema.parameters[i].authSources) :
     i \in {j \in DOMAIN schema.parameters : schema.parameters[j].authSources # <<>>}}
    \cup (IF schema.authRequired # <<>> THEN {Range(schema.authRequired)} ELSE {})

\* the sources S are new to the tool and collide with none of its headers
Registrable(t, S) ==
  /\ S \cap Keys(heap[t.getters]) = {}
  /\ AuthHeaders(S) \cap Keys(heap[t.headers]) = {}

\* C30: two alternative services of one requirement, registered in one
\* load_tool or add_auth_token_getters call, are both accepted and both
\* registered; registered one by one, the second call raises the 'unused'
\* ValueError when the second service satisfies no requirement that the first
\* left outstanding.
C30_BatchingMatters ==
  /\ (last.op = "load_tool" /\ last.resp = "ok" /\ last.bound = {}
        /\ Cardinality(last.getters) = 2
        /\ Constructible(SchemaOf(last.name), last.getters, {})
        /\ \E R \in SchemaRequirements(SchemaOf(last.name)) : last.getters \subseteq R) =>
       /\ last.ok /\ Len(last.made) = 1
       /\ Keys(heap[tools[last.made[1]].getters]) = last.getters
  /\ last.op = "add_auth_token_getters" =>
       LET t == tools[last.recv]
       IN /\ (Cardinality(last.getters) = 2 /\ Registrable(t, last.getters)
                /\ \E R \in Requirements(t) : last.getters \subseteq R) =>
               /\ last.ok /\ Len(last.made) = 1
               /\ last.getters \subseteq Keys(heap[tools[last.made[1]].getters])
          /\ (Cardinality(last.getters) = 1 /\ Registrable(t, last.getters)
                /\ born[last.recv].op = "add_auth_token_getters"
                /\ LET s == tools[born[last.recv].from]
                       first == Keys(heap[t.getters]) \ Keys(heap[s.getters])
                   IN /\ Cardinality(first) = 1
                      /\ \E R \in Requirements(s) : first \cup last.getters \subseteq R
                      /\ \A R \in Requirements(s) :
                           last.getters \subseteq R => first \subseteq R) =>
               /\ ~last.ok /\ last.made = <<>>
               /\ last.err = "ValueError" /\ last.reason = "unused"
               /\ last.names_auth = last.getters

\* C30 witness: one tool took two alternatives of a requirement in one call;
\* the same tool took the first alone, and the tool so derived refused the
\* second as unused
C30_Witness ==
  /\ last.op = "add_auth_token_getters" /\ ~last.ok /\ last.reason = "unused"
  /\ Cardinality(last.getters) = 1
  /\ born[last.recv].op = "add_auth_token_getters"
  /\ LET s == born[last.recv].from
         first == Keys(heap[tools[last.recv].getters]) \ Keys(heap[tools[s].getters])
     IN /\ Cardinality(first) = 1
        /\ \E R \in Requirements(tools[s]) : first \cup last.getters \subseteq R
        /\ \E u \in DOMAIN tools :
             /\ born[u].op = "add_auth_token_getters" /\ born[u].from = s
             /\ Keys(heap[tools[u].getters]) =
                  Keys(heap[tools[s].getters]) \cup first \cup last.getters

====
